---------------------------- MODULE Spec2Model ----------------------------
(***************************************************************************)
(* keydb: the disk segment subsystem (segment writer, disk segment read    *)
(* path, iterators) and the database glue around it.                       *)
(*                                                                         *)
(* Byte strings are sequences of naturals 0..255.  A Go nil slice is the   *)
(* sequence Nil, which no byte string equals (no byte is negative).  The   *)
(* key file and the data file are byte strings; a block is keyBlockSize    *)
(* bytes of the key file.  Positions are 0-based as in the source; Slice   *)
(* converts to the 1-based sequences.                                      *)
(***************************************************************************)
EXTENDS Integers, Sequences, FiniteSets, TLC

\* ------------------------------------------------------------------------
\* Program constants (writer file, lines 13-20)
keyBlockSize == 4096
maxKeySize == 1024
endOfBlock == 32768
compressedBit == 32768
maxPrefixLen == 127
maxCompressedLen == 255
keyIndexInterval == 2

\* Errors
NoErr == "nil"
EndOfIterator == "EndOfIterator"
KeyNotFound == "KeyNotFound"
errKeyRemoved == "errKeyRemoved"
errEmptySegment == "errEmptySegment"
errInvalidKeyLen == "errInvalidKeyLen"

\* The nil slice
Nil == <<-1>>

\* The nil slice of slices (a nil keyIndex)
NilIndex == <<Nil>>

\* len() of a slice: 0 for the nil slice
GoLen(b) == IF b = Nil THEN 0 ELSE Len(b)

\* the bytes of a slice: none for the nil slice
Bytes(b) == IF b = Nil THEN <<>> ELSE b

\* b[from:to], 0-based, to exclusive
Slice(b, from, to) == SubSeq(b, from + 1, to)

\* n copies of byte c
Pad(c, n) == [i \in 1..n |-> c]

Min(a, b) == IF a < b THEN a ELSE b

\* ------------------------------------------------------------------------
\* Comparator: unsigned lexicographic order on byte strings
\* the length of the longest common prefix, found by bisection: a and b agree
\* on their first lo bytes and not on their first hi + 1
RECURSIVE CommonBetween(_, _, _, _)
CommonBetween(a, b, lo, hi) ==
    IF lo >= hi THEN lo
    ELSE LET mid == (lo + hi + 1) \div 2
         IN  IF SubSeq(a, lo + 1, mid) = SubSeq(b, lo + 1, mid)
             THEN CommonBetween(a, b, mid, hi)
             ELSE CommonBetween(a, b, lo, mid - 1)

CommonLen(a, b) == CommonBetween(a, b, 0, Min(Len(a), Len(b)))

\* bytes.Compare(a, b) < 0
less(a, b) ==
    LET differAt(n) == IF n = Len(a) THEN n < Len(b)
                       ELSE IF n = Len(b) THEN FALSE
                       ELSE a[n + 1] < b[n + 1]
    IN  differAt(CommonLen(a, b))

equal(a, b) == a = b

\* ------------------------------------------------------------------------
\* encoding/binary, little endian
RECURSIVE PutUint(_, _)
PutUint(n, width) ==
    IF width = 0 THEN <<>> ELSE <<n % 256>> \o PutUint(n \div 256, width - 1)

RECURSIVE UintAt(_, _, _)
UintAt(b, pos, width) ==
    IF width = 0 THEN 0
    ELSE b[pos + 1] + 256 * UintAt(b, pos + 1, width - 1)

Uint16(b, pos) == UintAt(b, pos, 2)
Uint64(b, pos) == UintAt(b, pos, 8)

\* A uint32 is kept as its two 16-bit halves, so that 0xFFFFFFFF is a value of
\* the model; ToUint32 is the conversion uint32(n) of a non-negative int.
ToUint32(n) == [hi |-> (n \div 65536) % 65536, lo |-> n % 65536]
IntOf(u) == u.hi * 65536 + u.lo
PutUint32(u) == PutUint(u.lo, 2) \o PutUint(u.hi, 2)
Uint32(b, pos) == [hi |-> Uint16(b, pos + 2), lo |-> Uint16(b, pos)]

\* removedKeyLen = 0xFFFFFFFF
removedKeyLen == [hi |-> 65535, lo |-> 65535]

\* bitwise and / or on naturals
RECURSIVE BitAnd(_, _)
BitAnd(a, b) ==
    IF a = 0 \/ b = 0 THEN 0
    ELSE (IF a % 2 = 1 /\ b % 2 = 1 THEN 1 ELSE 0) + 2 * BitAnd(a \div 2, b \div 2)

RECURSIVE BitOr(_, _)
BitOr(a, b) ==
    IF a = 0 THEN b
    ELSE IF b = 0 THEN a
    ELSE (IF a % 2 = 1 \/ b % 2 = 1 THEN 1 ELSE 0) + 2 * BitOr(a \div 2, b \div 2)

\* ------------------------------------------------------------------------
\* Codec

\* a calculatePrefixLen without the limits of the prefix and of the rest
calculatePrefixLen_noLimit(prevKey, key) ==
    IF prevKey = Nil THEN 0 ELSE CommonLen(prevKey, key)

\* calculatePrefixLen: the common prefix, or 0 when a limit is exceeded
calculatePrefixLen(prevKey, key) ==
    IF prevKey = Nil THEN 0
    ELSE LET limited(length) ==
                 IF length > maxPrefixLen \/ Len(key) - length > maxCompressedLen
                 THEN 0
                 ELSE length
         IN  limited(CommonLen(prevKey, key))

\* an encodeKey that does not set the compressed bit
encodeKey_noCompressedBit(key, prevKey) ==
    LET compress(prefixLen, tail) ==
            [keylen |-> BitOr((prefixLen * 256) % 65536, Len(tail) % 65536),
             compressedKey |-> tail]
        encode(prefixLen) ==
            IF prefixLen > 0
            THEN compress(prefixLen, Slice(key, prefixLen, Len(key)))
            ELSE [keylen |-> Len(key) % 65536, compressedKey |-> key]
    IN  encode(calculatePrefixLen(prevKey, key))

\* encodeKey: diskkey{keylen, compressedKey}
encodeKey(key, prevKey) ==
    LET compress(prefixLen, tail) ==
            [keylen |-> BitOr(compressedBit,
                              BitOr((prefixLen * 256) % 65536, Len(tail) % 65536)),
             compressedKey |-> tail]
        encode(prefixLen) ==
            IF prefixLen > 0
            THEN compress(prefixLen, Slice(key, prefixLen, Len(key)))
            ELSE [keylen |-> Len(key) % 65536, compressedKey |-> key]
    IN  encode(calculatePrefixLen(prevKey, key))

\* decodeKeyLen: (prefixLen, compressedLen, err)
decodeKeyLen(keylen) ==
    LET checked_(compressed, prefixLen, compressedLen) ==
            IF compressed /\ (prefixLen > maxPrefixLen \/ compressedLen > maxCompressedLen)
            THEN [prefixLen |-> 0, compressedLen |-> 0, err |-> errInvalidKeyLen]
            ELSE IF ~compressed /\ keylen > maxKeySize
            THEN [prefixLen |-> 0, compressedLen |-> 0, err |-> errInvalidKeyLen]
            ELSE IF compressedLen = 0
            THEN [prefixLen |-> 0, compressedLen |-> 0, err |-> errInvalidKeyLen]
            ELSE [prefixLen |-> prefixLen, compressedLen |-> compressedLen, err |-> NoErr]
        decode(compressed) ==
            checked_(compressed,
                     IF compressed THEN BitAnd(keylen \div 256, maxPrefixLen) ELSE 0,
                     IF compressed THEN BitAnd(keylen, maxCompressedLen) ELSE keylen)
    IN  decode(BitAnd(keylen, compressedBit) # 0)

\* ------------------------------------------------------------------------
\* Segment writer

\* the writer's locals at the top of the loop of writeSegmentFiles
WriterInit ==
    [keyW |-> <<>>, dataW |-> <<>>, dataOffset |-> 0, keyBlockLen |-> 0,
     keyCount |-> 0, block |-> 0, prevKey |-> Nil, keyIndex |-> NilIndex,
     err |-> NoErr]

\* an end-of-block marker without the padding behind it
closeBlock_noPadding(w) ==
    [w EXCEPT !.keyW = w.keyW \o PutUint(endOfBlock, 2), !.keyBlockLen = 0]

\* end-of-block marker and zero padding to the block size
closeBlock(w) ==
    [w EXCEPT !.keyW = w.keyW \o PutUint(endOfBlock, 2)
                             \o Pad(0, keyBlockSize - (w.keyBlockLen + 2)),
              !.keyBlockLen = 0]

\* a rollover that keeps the previous key across the block boundary
rollover_keepsPrevKey(w, key) ==
    IF w.keyBlockLen + 2 + Len(key) + 8 + 4 >= keyBlockSize - 2
    THEN closeBlock(w)
    ELSE w

\* the block rollover of one loop iteration
rollover(w, key) ==
    IF w.keyBlockLen + 2 + Len(key) + 8 + 4 >= keyBlockSize - 2
    THEN [closeBlock(w) EXCEPT !.prevKey = Nil]
    ELSE w

\* an index step that takes the first key of every block
indexStep_everyBlock(w, key) ==
    IF w.keyBlockLen = 0
    THEN [w EXCEPT !.keyIndex = Append(IF w.keyIndex = NilIndex THEN <<>> ELSE w.keyIndex, key),
                   !.block = w.block + 1]
    ELSE w

\* the sparse index step of one loop iteration
indexStep(w, key) ==
    IF w.keyBlockLen = 0
    THEN [w EXCEPT !.keyIndex = IF w.block % keyIndexInterval = 0
                                 THEN Append(IF w.keyIndex = NilIndex THEN <<>> ELSE w.keyIndex, key)
                                 ELSE w.keyIndex,
                   !.block = w.block + 1]
    ELSE w

\* a dataLen that is the length also for a removed key
dataLenOf_lengthOnly(value) ==
    IF value = Nil THEN ToUint32(0) ELSE ToUint32(Len(value))

\* dataLen of a value
dataLenOf(value) ==
    IF value = Nil THEN removedKeyLen ELSE ToUint32(Len(value))

\* a putEntry that advances dataOffset for a removed key too, by one byte
putEntry_advancesForRemoved(w, key, value) ==
    LET put(dataLen, dk) ==
            [w EXCEPT !.keyW = w.keyW \o PutUint(dk.keylen, 2) \o dk.compressedKey
                                     \o PutUint(w.dataOffset, 8) \o PutUint32(dataLen),
                      !.prevKey = key,
                      !.keyBlockLen = w.keyBlockLen + 2 + Len(dk.compressedKey) + 8 + 4,
                      !.dataOffset = IF value # Nil THEN w.dataOffset + IntOf(dataLen)
                                     ELSE w.dataOffset + 1]
    IN  put(dataLenOf(value), encodeKey(key, w.prevKey))

\* the entry written to the key file and the pointers' advance
putEntry(w, key, value) ==
    LET put(dataLen, dk) ==
            [w EXCEPT !.keyW = w.keyW \o PutUint(dk.keylen, 2) \o dk.compressedKey
                                     \o PutUint(w.dataOffset, 8) \o PutUint32(dataLen),
                      !.prevKey = key,
                      !.keyBlockLen = w.keyBlockLen + 2 + Len(dk.compressedKey) + 8 + 4,
                      !.dataOffset = IF value # Nil THEN w.dataOffset + IntOf(dataLen)
                                     ELSE w.dataOffset]
    IN  put(dataLenOf(value), encodeKey(key, w.prevKey))

\* one iteration of the loop of writeSegmentFiles for the entry (key, value)
writeEntry(w, key, value) ==
    LET w1 == [w EXCEPT !.keyCount = w.keyCount + 1,
                        !.dataW = w.dataW \o Bytes(value)]
    IN  putEntry(indexStep(rollover(w1, key), key), key, value)

RECURSIVE writeLoop(_, _, _)
writeLoop(w, entries, i) ==
    IF w.err # NoErr \/ i > Len(entries) THEN w
    ELSE writeLoop(writeEntry(w, entries[i].key, entries[i].value), entries, i + 1)

\* writeSegmentFiles over the entries the input iterator yields:
\* the two files written, the sparse index and the error
writeSegmentFiles(entries) ==
    LET files(w, padded) ==
            [keyFile |-> padded.keyW, dataFile |-> padded.dataW,
             keyIndex |-> IF padded.keyCount = 0 THEN NilIndex ELSE padded.keyIndex,
             err |-> IF w.err # NoErr THEN w.err
                     ELSE IF padded.keyCount = 0 THEN errEmptySegment ELSE NoErr]
        pad(w) ==
            files(w, IF w.err = NoErr /\ w.keyBlockLen > 0 /\ w.keyBlockLen < keyBlockSize
                     THEN closeBlock(w) ELSE w)
    IN  pad(writeLoop(WriterInit, entries, 1))

\* ------------------------------------------------------------------------
\* Files

errEOF == "EOF"
errPanic == "panic"

\* File.ReadAt(buffer, off): the buffer after the read, the count and the error
ReadAt(file, buffer, off) ==
    LET read(n) ==
            [buffer |-> SubSeq(file, off + 1, off + n) \o SubSeq(buffer, n + 1, Len(buffer)),
             n |-> n,
             err |-> IF n < Len(buffer) THEN errEOF ELSE NoErr]
    IN  read(Min(Len(buffer), IF off >= Len(file) THEN 0 ELSE Len(file) - off))

\* Go's integer division truncates toward zero
Quot(a, b) == IF a >= 0 THEN a \div b ELSE -((-a) \div b)

\* ------------------------------------------------------------------------
\* Disk segment

\* loadKeyIndex's loop: the first key of every keyIndexInterval-th block
RECURSIVE loadKeyIndexFrom(_, _, _, _)
loadKeyIndexFrom(kf, keyBlocks, block, keyIndex) ==
    IF block >= keyBlocks THEN keyIndex
    ELSE LET first(r, keylen) ==
                 IF r.err # NoErr THEN NilIndex
                 ELSE IF keylen = endOfBlock THEN keyIndex
                 ELSE loadKeyIndexFrom(kf, keyBlocks, block + keyIndexInterval,
                                       Append(keyIndex, Slice(r.buffer, 2, 2 + keylen)))
             load(r) == first(r, Uint16(r.buffer, 0))
         IN  load(ReadAt(kf, Pad(0, keyBlockSize), block * keyBlockSize))

\* a loadKeyIndex that starts at the second block
loadKeyIndex_fromSecondBlock(kf, keyBlocks) == loadKeyIndexFrom(kf, keyBlocks, 1, <<>>)

\* loadKeyIndex: the loop from block 0 with an empty index
loadKeyIndex(kf, keyBlocks) == loadKeyIndexFrom(kf, keyBlocks, 0, <<>>)

\* newDiskSegment over the two files
newDiskSegment(keyFile, dataFile, keyIndex, id) ==
    LET segment(keyBlocks) ==
            [keyFile |-> keyFile, dataFile |-> dataFile, keyBlocks |-> keyBlocks, id |-> id,
             keyIndex |-> IF keyIndex = NilIndex THEN loadKeyIndex(keyFile, keyBlocks)
                          ELSE keyIndex]
    IN  segment(Quot(Len(keyFile) - 1, keyBlockSize) + 1)

\* the first key of a block as binarySearch0 reads it into the shared buffer
\* (the error of the read is ignored)
firstKey(ds, block, buffer) ==
    LET first(b, keylen) ==
            [buffer |-> b,
             skey |-> IF 2 + keylen > Len(b) THEN Nil ELSE Slice(b, 2, 2 + keylen)]
        read(b) == first(b, Uint16(b, 0))
    IN  read(ReadAt(ds.keyFile, buffer, block * keyBlockSize).buffer)

\* binarySearch0: the block that may contain the key
RECURSIVE binarySearch0(_, _, _, _, _)
binarySearch0(ds, lowBlock, highBlock, key, buffer) ==
    IF highBlock - lowBlock <= 1
    THEN LET last(f) ==
                 IF f.skey = Nil THEN [block |-> 0, err |-> errPanic, buffer |-> f.buffer]
                 ELSE IF less(key, f.skey)
                 THEN [block |-> lowBlock, err |-> NoErr, buffer |-> f.buffer]
                 ELSE [block |-> highBlock, err |-> NoErr, buffer |-> f.buffer]
         IN  last(firstKey(ds, highBlock, buffer))
    ELSE LET half(block, f) ==
                 IF f.skey = Nil THEN [block |-> 0, err |-> errPanic, buffer |-> f.buffer]
                 ELSE IF less(key, f.skey)
                 THEN binarySearch0(ds, lowBlock, block, key, f.buffer)
                 ELSE binarySearch0(ds, block, highBlock, key, f.buffer)
             middle(block) == half(block, firstKey(ds, block, buffer))
         IN  middle(Quot(highBlock - lowBlock, 2) + lowBlock)

\* A slice of the block buffer: where it starts and how long it is.  decodeKey's
\* append writes the key in place behind the previous key's prefix, so a decoded
\* key is again a slice of the buffer.
NoSlice == [pos |-> -1, len |-> 0]
sliceBytes(buffer, s) == IF s = NoSlice THEN Nil ELSE Slice(buffer, s.pos, s.pos + s.len)

\* append(prevKey[:prefixLen], key...) on the buffer: the buffer after it and the
\* slice that holds the decoded key
appendInPlace(buffer, prevKey, prefixLen, keyPos, keyLen) ==
    LET tail == Slice(buffer, keyPos, keyPos + keyLen)
        at == prevKey.pos + prefixLen
    IN  [buffer |-> SubSeq(buffer, 1, at) \o tail
                        \o SubSeq(buffer, at + keyLen + 1, Len(buffer)),
         key |-> [pos |-> prevKey.pos, len |-> prefixLen + keyLen]]

\* decodeKey(key, prevKey, prefixLen) with key = buffer[keyPos : keyPos+keyLen]
decodeKey(buffer, prevKey, prefixLen, keyPos, keyLen) ==
    IF prefixLen # 0
    THEN appendInPlace(buffer, prevKey, prefixLen, keyPos, keyLen)
    ELSE [buffer |-> buffer, key |-> [pos |-> keyPos, len |-> keyLen]]

\* the loop of scanBlock from position index of the buffer
RECURSIVE scanFrom(_, _, _, _)
scanFrom(buffer, index, prevKey, key) ==
    IF index + 2 > Len(buffer) THEN [offset |-> 0, len |-> ToUint32(0), err |-> errPanic]
    ELSE
    LET compare(endkey, d, _key, len) ==
            IF _key = key
            THEN [offset |-> Uint64(d.buffer, endkey), len |-> len,
                  err |-> IF len = removedKeyLen THEN errKeyRemoved ELSE NoErr]
            ELSE IF ~less(_key, key)
            THEN [offset |-> 0, len |-> ToUint32(0), err |-> KeyNotFound]
            ELSE scanFrom(d.buffer, endkey + 12, d.key, key)
        decoded(endkey, d) ==
            compare(endkey, d, sliceBytes(d.buffer, d.key), Uint32(d.buffer, endkey + 8))
        entry(keylen, prefixLen, compressedLen, endkey) ==
            IF keylen = endOfBlock THEN [offset |-> 0, len |-> ToUint32(0), err |-> KeyNotFound]
            ELSE IF endkey + 12 > Len(buffer) \/ (prefixLen > 0 /\ prevKey = NoSlice)
            THEN [offset |-> 0, len |-> ToUint32(0), err |-> errPanic]
            ELSE decoded(endkey, decodeKey(buffer, prevKey, prefixLen, index + 2, compressedLen))
        lengths(keylen, prefixLen, compressedLen) ==
            entry(keylen, prefixLen, compressedLen, index + 2 + compressedLen)
        flagged(keylen, compressed) ==
            lengths(keylen,
                    IF compressed THEN BitAnd(keylen \div 256, maxPrefixLen) ELSE 0,
                    IF compressed THEN BitAnd(keylen, maxCompressedLen) ELSE keylen)
        scan(keylen) == flagged(keylen, BitAnd(keylen, compressedBit) # 0)
    IN  scan(Uint16(buffer, index))

\* scanBlock: the data pointer of the key in the block
scanBlock(ds, block, key, buffer) ==
    LET scan(r) == IF r.err # NoErr THEN [offset |-> 0, len |-> ToUint32(0), err |-> r.err]
                   ELSE scanFrom(r.buffer, 0, NoSlice, key)
    IN  scan(ReadAt(ds.keyFile, buffer, block * keyBlockSize))

\* sort.Search(n, f) with f(i) = less(key, keyIndex[i])
RECURSIVE sortSearch(_, _, _, _)
sortSearch(keyIndex, key, i, j) ==
    IF i >= j THEN i
    ELSE LET halve(h) == IF ~less(key, keyIndex[h + 1])
                          THEN sortSearch(keyIndex, key, h + 1, j)
                          ELSE sortSearch(keyIndex, key, i, h)
         IN  halve((i + j) \div 2)

\* a band that ends at the indexed block
indexBand_oneBlock(ds, index) ==
    [low |-> index * keyIndexInterval, high |-> index * keyIndexInterval]

\* the band of blocks the sparse index leaves
indexBand(ds, index) ==
    LET lowblock == index * keyIndexInterval
        highblock == lowblock + keyIndexInterval
    IN  [low |-> lowblock,
         high |-> IF highblock >= ds.keyBlocks THEN ds.keyBlocks - 1 ELSE highblock]

\* binarySearch: (offset, length, err) of the key's value
binarySearch(ds, key) ==
    LET found(b) == IF b.err # NoErr THEN [offset |-> 0, len |-> ToUint32(0), err |-> b.err]
                    ELSE scanBlock(ds, b.block, key, b.buffer)
        within(band) == found(binarySearch0(ds, band.low, band.high, key, Pad(0, keyBlockSize)))
        search(index) ==
            IF ds.keyIndex # NilIndex /\ index = 0
            THEN [offset |-> 0, len |-> ToUint32(0), err |-> KeyNotFound]
            ELSE within(IF ds.keyIndex = NilIndex THEN [low |-> 0, high |-> ds.keyBlocks - 1]
                        ELSE indexBand(ds, index - 1))
    IN  search(IF ds.keyIndex = NilIndex THEN 0
               ELSE sortSearch(ds.keyIndex, key, 0, Len(ds.keyIndex)))

\* a read that gives nil for a value of length 0
readData_emptyIsNil(dataFile, offset, len) ==
    LET read(r) == [data |-> IF IntOf(len) = 0 THEN Nil ELSE r.buffer,
                    err |-> IF IntOf(len) = 0 THEN NoErr ELSE r.err]
    IN  read(ReadAt(dataFile, Pad(0, IntOf(len)), offset))

\* dataFile.ReadAt into a fresh buffer of length len (a uint32)
readData(dataFile, offset, len) ==
    LET read(r) == [data |-> r.buffer, err |-> IF IntOf(len) = 0 THEN NoErr ELSE r.err]
    IN  read(ReadAt(dataFile, Pad(0, IntOf(len)), offset))

\* a Get that hands on binarySearch's error for a removed key
Get_handsOnRemoved(ds, key) ==
    LET read(r) == IF r.err # NoErr THEN [value |-> Nil, err |-> r.err]
                   ELSE [value |-> r.data, err |-> NoErr]
        found(p) == IF p.err # NoErr THEN [value |-> Nil, err |-> p.err]
                    ELSE read(readData(ds.dataFile, p.offset, p.len))
    IN  found(binarySearch(ds, key))

\* diskSegment.Get: (value, err)
Get(ds, key) ==
    LET read(r) == IF r.err # NoErr THEN [value |-> Nil, err |-> r.err]
                   ELSE [value |-> r.data, err |-> NoErr]
        found(p) == IF p.err = errKeyRemoved THEN [value |-> Nil, err |-> NoErr]
                    ELSE IF p.err # NoErr THEN [value |-> Nil, err |-> p.err]
                    ELSE read(readData(ds.dataFile, p.offset, p.len))
    IN  found(binarySearch(ds, key))

\* ------------------------------------------------------------------------
\* Disk segment iterator

\* diskSegment.Lookup: the iterator, or the error
Lookup(ds, lower, upper) ==
    LET iterator(s, r) ==
            IF s.err # NoErr THEN [err |-> s.err]
            ELSE IF r.err # NoErr \/ r.n # keyBlockSize THEN [err |-> errEOF]
            ELSE [err |-> NoErr, kind |-> "disk",
                  lower |-> lower, upper |-> upper, buffer |-> r.buffer, block |-> s.block,
                  bufferOffset |-> 0, key |-> NoSlice, data |-> Nil, isValid |-> FALSE,
                  dsierr |-> NoErr, finished |-> FALSE]
        start(s) == iterator(s, ReadAt(ds.keyFile, s.buffer, s.block * keyBlockSize))
    IN  start(IF lower # Nil
              THEN binarySearch0(ds, 0, ds.keyBlocks - 1, lower, Pad(0, keyBlockSize))
              ELSE [block |-> 0, err |-> NoErr, buffer |-> Pad(0, keyBlockSize)])

\* the iterator finished: block == keyBlocks, or the first key beyond upper
finish(dsi) ==
    [dsi EXCEPT !.finished = TRUE, !.dsierr = EndOfIterator, !.key = NoSlice,
                !.data = Nil, !.isValid = TRUE]

\* a found entry whose data is read also when the key is removed
foundData_readsRemoved(ds, dataoffset, datalen) ==
    IF datalen = removedKeyLen THEN [data |-> <<>>, err |-> NoErr]
    ELSE readData(ds.dataFile, dataoffset, datalen)

\* the value of a found entry read from the data file
foundData(ds, dataoffset, datalen) ==
    IF datalen = removedKeyLen THEN [data |-> Nil, err |-> NoErr]
    ELSE readData(ds.dataFile, dataoffset, datalen)

\* the loop of nextKeyValue; ret is the error nextKeyValue returns
RECURSIVE nextLoop(_, _, _)
nextLoop(ds, dsi, prevKey) ==
    LET nextBlock(block, r) ==
            IF block = ds.keyBlocks
            THEN [dsi |-> finish([dsi EXCEPT !.block = block]), ret |-> EndOfIterator]
            ELSE IF r.err # NoErr \/ r.n # keyBlockSize
            THEN [dsi |-> [dsi EXCEPT !.block = block, !.buffer = r.buffer],
                  ret |-> errEOF]
            ELSE nextLoop(ds, [dsi EXCEPT !.block = block, !.buffer = r.buffer,
                                          !.bufferOffset = 0], NoSlice)
        readBlock(block) ==
            nextBlock(block, ReadAt(ds.keyFile, dsi.buffer, block * keyBlockSize))
        found(d, moved, f) ==
            [dsi |-> [moved EXCEPT !.data = f.data, !.key = d.key, !.isValid = TRUE],
             ret |-> f.err]
        bounds(d, ptrPos, key, moved, atLower, atUpper) ==
            IF dsi.lower # Nil /\ less(key, dsi.lower)
            THEN nextLoop(ds, moved, d.key)
            ELSE IF ~atLower /\ ~atUpper /\ dsi.upper # Nil /\ ~less(key, dsi.upper)
            THEN [dsi |-> finish(moved), ret |-> EndOfIterator]
            ELSE found(d, moved, foundData(ds, Uint64(d.buffer, ptrPos),
                                           Uint32(d.buffer, ptrPos + 8)))
        keyed(d, ptrPos, key) ==
            bounds(d, ptrPos, key,
                   [dsi EXCEPT !.buffer = d.buffer, !.bufferOffset = ptrPos + 12],
                   dsi.lower # Nil /\ equal(key, dsi.lower),
                   dsi.upper # Nil /\ equal(key, dsi.upper))
        decoded(d, ptrPos) == keyed(d, ptrPos, sliceBytes(d.buffer, d.key))
        entry(k, keyPos, ptrPos) ==
            IF k.err # NoErr THEN [dsi |-> dsi, ret |-> k.err]
            ELSE IF ptrPos + 12 > Len(dsi.buffer) \/ (k.prefixLen # 0 /\ prevKey = NoSlice)
            THEN [dsi |-> dsi, ret |-> errPanic]
            ELSE decoded(decodeKey(dsi.buffer, prevKey, k.prefixLen, keyPos, k.compressedLen),
                         ptrPos)
        lengths(k, keyPos) == entry(k, keyPos, keyPos + k.compressedLen)
        step(keylen) ==
            IF keylen = endOfBlock THEN readBlock(dsi.block + 1)
            ELSE lengths(decodeKeyLen(keylen), dsi.bufferOffset + 2)
    IN  step(Uint16(dsi.buffer, dsi.bufferOffset))

\* nextKeyValue: the iterator after the call
nextKeyValue(ds, dsi) ==
    IF dsi.finished THEN dsi ELSE nextLoop(ds, dsi, dsi.key).dsi

\* what Next and peekKey hand back from the iterator's fields
held(dsi) ==
    [key |-> sliceBytes(dsi.buffer, dsi.key), value |-> dsi.data, err |-> dsi.dsierr]

\* diskSegmentIterator.Next: the iterator after the call and (key, value, err)
diskNext(ds, dsi) ==
    LET taken(after) == [itr |-> [after EXCEPT !.isValid = FALSE], result |-> held(after)]
    IN  taken(IF dsi.isValid THEN dsi ELSE nextKeyValue(ds, dsi))

\* a peekKey that reads on although an entry is held
diskPeekKey_readsOn(ds, dsi) ==
    LET peeked(after, h) == [itr |-> after, result |-> [key |-> h.key, err |-> h.err]]
        kept(after) == peeked(after, held(after))
    IN  kept(nextKeyValue(ds, dsi))

\* diskSegmentIterator.peekKey: the iterator after the call and (key, err)
diskPeekKey(ds, dsi) ==
    LET peeked(after, h) == [itr |-> after, result |-> [key |-> h.key, err |-> h.err]]
        kept(after) == peeked(after, held(after))
    IN  kept(IF dsi.isValid THEN dsi ELSE nextKeyValue(ds, dsi))

\* ------------------------------------------------------------------------
\* Memory segment iterator

\* Tree.FindNodes(lower, upper): the entries within the bounds, in key order
FindNodes(entries, lower, upper) ==
    SelectSeq(entries, LAMBDA e : /\ (lower = Nil \/ ~less(e.key, lower))
                                  /\ (upper = Nil \/ ~less(upper, e.key)))

\* memorySegment.Lookup
memLookup(entries, lower, upper) ==
    [err |-> NoErr, kind |-> "mem", results |-> FindNodes(entries, lower, upper),
     index |-> 0]

\* a memorySegmentIterator.Next that starts over after the end of the results
memNext_startsOver(es) ==
    IF es.index >= Len(es.results)
    THEN [itr |-> [es EXCEPT !.index = 0],
          result |-> [key |-> Nil, value |-> Nil, err |-> EndOfIterator]]
    ELSE [itr |-> [es EXCEPT !.index = es.index + 1],
          result |-> [key |-> es.results[es.index + 1].key,
                      value |-> es.results[es.index + 1].value, err |-> NoErr]]

\* memorySegmentIterator.Next
memNext(es) ==
    IF es.index >= Len(es.results)
    THEN [itr |-> es, result |-> [key |-> Nil, value |-> Nil, err |-> EndOfIterator]]
    ELSE [itr |-> [es EXCEPT !.index = es.index + 1],
          result |-> [key |-> es.results[es.index + 1].key,
                      value |-> es.results[es.index + 1].value, err |-> NoErr]]

\* memorySegmentIterator.peekKey
memPeekKey(es) ==
    IF es.index >= Len(es.results)
    THEN [itr |-> es, result |-> [key |-> Nil, err |-> EndOfIterator]]
    ELSE [itr |-> es, result |-> [key |-> es.results[es.index + 1].key, err |-> NoErr]]

\* LookupIterator.Next / peekKey on either kind of iterator
Next_(ds, itr) == IF itr.kind = "disk" THEN diskNext(ds, itr) ELSE memNext(itr)
peekKey(ds, itr) == IF itr.kind = "disk" THEN diskPeekKey(ds, itr) ELSE memPeekKey(itr)

\* the entries the writer's loop takes from its input iterator: it calls Next
\* until the first error
RECURSIVE drain(_, _, _)
drain(ds, itr, acc) ==
    LET take(n) ==
            IF n.result.err # NoErr THEN acc
            ELSE drain(ds, n.itr, Append(acc, [key |-> n.result.key, value |-> n.result.value]))
    IN  take(Next_(ds, itr))

\* writeAndLoadSegment without the file names: the segment, or the error
writeAndLoad(ds, itr, id) ==
    LET load(w) ==
            IF w.err # NoErr THEN [err |-> w.err]
            ELSE [err |-> NoErr, seg |-> newDiskSegment(w.keyFile, w.dataFile, w.keyIndex, id)]
    IN  load(writeSegmentFiles(drain(ds, itr, <<>>)))

\* ------------------------------------------------------------------------
\* Bounds of the model
NumKeys == 16
MaxPeeks == 2

\* ------------------------------------------------------------------------
\* Keys and values of the model: key i of the universe, in ascending order.
\* Keys come in pairs A < B with B = A \o tail: pairs of long keys (four such
\* entries fill a block), pairs at the limits of the prefix compression, and
\* pairs at the limit of the key size.  In the run of all the keys the last
\* key is a compressible key that opens a block.
PairOf(i) == (i + 1) \div 2

KeyA(g) ==
    CASE g % 3 = 1 -> Pad(g, 886)
      [] g % 3 = 2 -> Pad(g, 127)
      [] OTHER     -> Pad(g, 1023)

KeyTail(g) ==
    CASE g % 3 = 1 -> Pad(0, 14)
      [] g % 3 = 2 -> Pad(0, 255)
      [] OTHER     -> <<1>>

KeyAt(i) == IF i % 2 = 1 THEN KeyA(PairOf(i)) ELSE KeyA(PairOf(i)) \o KeyTail(PairOf(i))

ValueAt(i) ==
    CASE i % 5 = 0 -> Nil
      [] i % 5 = 1 -> <<>>
      [] i % 5 = 2 -> <<i>>
      [] i % 5 = 3 -> <<i, 0, i>>
      [] OTHER     -> <<i, i>>

\* the memory segments of the model: the runs lo..hi of the universe
Window(lo, hi) == [j \in 1..(hi - lo + 1) |-> [key |-> KeyAt(lo + j - 1),
                                               value |-> ValueAt(lo + j - 1)]]
Streams == {Window(lo, hi) : lo \in 1..NumKeys, hi \in 1..NumKeys} \ {<<>>}

\* keys asked for: every key of the universe, a key between the two keys of a
\* pair, a key behind a pair, and a key before all
Probes ==
    {KeyAt(i) : i \in 1..NumKeys}
    \cup {KeyA(g) \o <<0>> : g \in 1..PairOf(NumKeys)}
    \cup {KeyA(g) \o <<255>> : g \in 1..PairOf(NumKeys)}
    \cup {<<0>>}

\* the memory segments whose iterators are stepped: one entry, a few entries
\* and the whole rest of the universe, from each of the first ScanStarts keys
ScanStarts == 3
ScanStreams ==
    UNION {{Window(lo, hi) : hi \in {lo, lo + 4, NumKeys}} : lo \in 1..ScanStarts}

\* the bounds of the range scans: none, a key before all keys, keys of the
\* universe, a key between the two keys of a pair, a key behind all keys
LookupBounds ==
    {Nil, <<0>>, KeyAt(3), KeyAt(6), KeyA(4) \o <<0>>, KeyAt(11), <<255>>}

\* Next calls made on a finished iterator
MaxEnd == 2

\* ------------------------------------------------------------------------
\* State
VARIABLES
    stream,   \* the entries of the memory segment, in key order
    ds,       \* the disk segment written from it, or NoSegment
    got,      \* the last diskSegment.Get: [key, value, err], or NoCall
    itr,      \* the open iterator, or NoItr
    asked,    \* the (lower, upper) the iterator was opened with
    out,      \* what the iterator's Next calls returned, in order
    peeks,    \* what the peekKey calls since the last Next returned
    checked,  \* the peekKey results that came right before the last Next
    plain,    \* [itr, out] of a second caller, who opens the same iterator
              \* and calls Next when the first does, but never peekKey
    segs,     \* the table's disk segments, oldest first
    hist,     \* the memory segments flushed to the table so far, oldest first
    tgot,     \* the last query of the table and its result, or NoCall
    pre,      \* the same query's result before the merges since, or NoCall
    dir,      \* the files of the database directory
    db,       \* the Database of the running process: open, nextSegID, segments
    wr,       \* where the writer of the segment being flushed stands
    ids,      \* the ids nextSegmentID returned to this Database, in order
    opens,    \* how many times the directory was opened
    list,     \* db.tables[table].segments of the running process, oldest first
    tasks,    \* the writeSegmentToDisk goroutines started, one per commit
    sess,     \* the Database's open, closing, wg and nextSegID, and where
              \* the goroutine in Close stands
    swap,     \* the last swap of the segment list by a flush, or NoSwap
    pair,     \* a key and the key written before it in the block, or Nil
    coded,    \* the diskkey encodeKey made of the pair and what it decodes to
    broken,   \* what happened to the files under the open disk segment
    reopened, \* the disk segment loaded again from the files, or NoSegment
    gets,     \* one key's Get on the written segment, on the reopened one
              \* and on the segment without an index, or NoCall
    mu,       \* the holder of the table's lock: a writeSegmentToDisk
              \* goroutine's number, Merger, or 0 when it is free
    mrg,      \* where the compaction worker stands, and what it merged
    local     \* the slice `segments` of every writeSegmentToDisk goroutine
              \* that has run its loop

segmentVars == <<stream, ds, got, itr, asked, out, peeks, checked, plain>>
tableVars == <<segs, hist, tgot, pre>>
dbVars == <<dir, db, wr, ids, opens>>
flushVars == <<list, tasks, sess, swap>>
codecVars == <<pair, coded>>
faultVars == <<broken>>
indexVars == <<reopened, gets>>
lockVars == <<mu, mrg, local>>
vars == <<segmentVars, tableVars, dbVars, flushVars, codecVars, faultVars, indexVars,
          lockVars>>

NoSegment == [keyBlocks |-> 0]
NoCall == [err |-> "none"]
NoItr == [kind |-> "none"]

\* no process has opened the directory
NoDatabase == [open |-> FALSE, nextSegID |-> 0, segments |-> <<>>]
NoWriter == [pc |-> "idle"]
DbIdle ==
    /\ dir = {}
    /\ db = NoDatabase
    /\ wr = NoWriter
    /\ ids = <<>>
    /\ opens = 0

\* no Database whose flushes are followed
NoSession ==
    [open |-> FALSE, closing |-> FALSE, wg |-> 0, nextSegID |-> 0, merger |-> FALSE,
     pc |-> "none", segmentsClosed |-> FALSE, lockfile |-> FALSE]
NoSwap == [n |-> 0]
FlushIdle ==
    /\ list = <<>>
    /\ tasks = <<>>
    /\ sess = NoSession
    /\ swap = NoSwap

\* no key in the codec
NoPair == [prevKey |-> Nil, key |-> Nil]
NotCoded == [stage |-> "none"]
CodecIdle ==
    /\ pair = NoPair
    /\ coded = NotCoded

\* the files are as the writer left them
Intact == "none"

\* the compaction worker as the holder of the table's lock
Merger == -1

\* the table's lock is free and the compaction worker idle
MergerIdle == [pc |-> "idle"]
LockIdle ==
    /\ mu = 0
    /\ mrg = MergerIdle
    /\ local = <<>>

\* the files were not opened again
IndexIdle ==
    /\ reopened = NoSegment
    /\ gets = NoCall

\* no table in use
TableIdle ==
    /\ segs = <<>>
    /\ hist = <<>>
    /\ tgot = NoCall
    /\ pre = NoCall

InitWith(streams) ==
    /\ TableIdle
    /\ DbIdle
    /\ FlushIdle
    /\ CodecIdle
    /\ broken = Intact
    /\ IndexIdle
    /\ LockIdle
    /\ stream \in streams
    /\ ds = NoSegment
    /\ got = NoCall
    /\ itr = NoItr
    /\ asked = <<Nil, Nil>>
    /\ out = <<>>
    /\ peeks = <<>>
    /\ checked = <<>>
    /\ plain = [itr |-> NoItr, out |-> <<>>]

\* writeSegmentToDisk's write: the memory segment is written and loaded
Flush ==
    /\ ds = NoSegment
    /\ LET r == writeAndLoad(NoSegment, memLookup(stream, Nil, Nil), 1)
       IN  /\ r.err = NoErr
           /\ ds' = r.seg
    /\ UNCHANGED <<stream, got, itr, asked, out, peeks, checked, plain, tableVars, dbVars, flushVars, codecVars, faultVars, indexVars, lockVars>>

\* diskSegment.Get(key)
GetKey(key) ==
    /\ ds # NoSegment
    /\ got = NoCall
    /\ got' = [key |-> key] @@ Get(ds, key)
    /\ UNCHANGED <<stream, ds, itr, asked, out, peeks, checked, plain, tableVars, dbVars, flushVars, codecVars, faultVars, indexVars, lockVars>>

\* diskSegment.Lookup(lower, upper)
OpenDisk(lower, upper) ==
    /\ ds # NoSegment
    /\ itr = NoItr
    /\ LET r == Lookup(ds, lower, upper)
       IN  /\ r.err = NoErr
           /\ itr' = r
           /\ plain' = [itr |-> r, out |-> <<>>]
    /\ asked' = <<lower, upper>>
    /\ UNCHANGED <<stream, ds, got, out, peeks, checked, tableVars, dbVars, flushVars, codecVars, faultVars, indexVars, lockVars>>

\* memorySegment.Lookup(lower, upper)
OpenMem(lower, upper) ==
    /\ ds # NoSegment
    /\ itr = NoItr
    /\ itr' = memLookup(stream, lower, upper)
    /\ plain' = [itr |-> memLookup(stream, lower, upper), out |-> <<>>]
    /\ asked' = <<lower, upper>>
    /\ UNCHANGED <<stream, ds, got, out, peeks, checked, tableVars, dbVars, flushVars, codecVars, faultVars, indexVars, lockVars>>

\* the Next calls that returned EndOfIterator
Ends(results) == Len(SelectSeq(results, LAMBDA r : r.err = EndOfIterator))

\* LookupIterator.Next
CallNext ==
    /\ itr # NoItr
    /\ Ends(out) < MaxEnd
    /\ LET n == Next_(ds, itr)
       IN  /\ itr' = n.itr
           /\ out' = Append(out, n.result)
    /\ LET n == Next_(ds, plain.itr)
       IN  plain' = [itr |-> n.itr, out |-> Append(plain.out, n.result)]
    /\ checked' = peeks
    /\ peeks' = <<>>
    /\ UNCHANGED <<stream, ds, got, asked, tableVars, dbVars, flushVars, codecVars, faultVars, indexVars, lockVars>>

\* LookupIterator.peekKey
CallPeek ==
    /\ itr # NoItr
    /\ Len(peeks) < MaxPeeks
    /\ Ends(out) < MaxEnd
    /\ LET n == peekKey(ds, itr)
       IN  /\ itr' = n.itr
           /\ peeks' = Append(peeks, n.result)
    /\ UNCHANGED <<stream, ds, got, asked, out, checked, plain, tableVars, dbVars, flushVars, codecVars, faultVars, indexVars, lockVars>>

\* a caller's full scan: Next on the iterator until the first error, the
\* results of all the calls in order
RECURSIVE scanAll(_, _, _)
scanAll(ds_, it, acc) ==
    LET call(n, results) ==
            IF n.result.err # NoErr THEN results ELSE scanAll(ds_, n.itr, results)
        step(n) == call(n, Append(acc, n.result))
    IN  step(Next_(ds_, it))

\* diskSegment.Lookup(nil, nil) and Next until the iterator ends
ScanAll ==
    /\ ds # NoSegment
    /\ out = <<>>
    /\ LET r == Lookup(ds, Nil, Nil)
       IN  /\ r.err = NoErr
           /\ out' = scanAll(ds, r, <<>>)
    /\ UNCHANGED <<stream, ds, got, itr, asked, peeks, checked, plain, tableVars, dbVars, flushVars, codecVars, faultVars, indexVars, lockVars>>

\* Point gets and the full scan of a written segment
Init == InitWith(Streams)
Next == Flush \/ ScanAll \/ \E key \in Probes : GetKey(key)
Spec == Init /\ [][Next]_vars

\* the values the stream holds for a key (one at most: keys are unique)
Written(key) == {stream[i].value : i \in {j \in 1..Len(stream) : stream[j].key = key}}

\* C1: round trip. Get(k) on the segment written from a stream returns, without
\* an error, exactly the value written for k, for every entry of the stream
\* that is not a tombstone.
C1_RoundTrip ==
    got # NoCall =>
        \A v \in Written(got.key) : v # Nil => got.err = NoErr /\ got.value = v

\* a three-byte value found again in a segment of three key blocks or more
C1_Witness ==
    /\ got # NoCall
    /\ ds.keyBlocks >= 3
    /\ got.err = NoErr
    /\ got.value \in Written(got.key)
    /\ got.value # Nil
    /\ Len(got.value) = 3

\* the results of the full scan for a key
Hits(key) == {j \in 1..Len(out) : out[j].err = NoErr /\ out[j].key = key}

\* C6: point get equals scan. Get(k) returns a value exactly when the full scan
\* Lookup(nil, nil) yields k with that value; it returns no value and no error
\* when the scan yields k as a tombstone, and KeyNotFound when the scan does
\* not yield k.
C6_GetEqualsScan ==
    (got # NoCall /\ out # <<>>) =>
        /\ out[Len(out)].err = EndOfIterator
        /\ Cardinality(Hits(got.key)) <= 1
        /\ Hits(got.key) = {} => got.value = Nil /\ got.err = KeyNotFound
        /\ \A j \in Hits(got.key) : got.value = out[j].value /\ got.err = NoErr

\* a get of the first key of the third block agrees with the scan, beside a
\* get of a key the scan does not yield
C6_Witness ==
    /\ got # NoCall
    /\ out # <<>>
    /\ ds.keyBlocks >= 3
    /\ Hits(got.key) # {}
    /\ got.value # Nil
    /\ firstKey(ds, 2, Pad(0, keyBlockSize)).skey = got.key

\* C8 as amended: Get(k) of a key whose entry is a tombstone returns no value
\* and no error, and Get(k) of a key the segment does not hold returns no
\* value and the error KeyNotFound.
C8_TombstoneGet ==
    got # NoCall =>
        /\ Nil \in Written(got.key) => got.value = Nil /\ got.err = NoErr
        /\ Written(got.key) = {} => got.value = Nil /\ got.err = KeyNotFound

\* a get of a tombstone in the last of three blocks
C8_Witness ==
    /\ got # NoCall
    /\ ds.keyBlocks >= 3
    /\ Nil \in Written(got.key)
    /\ got.key = stream[Len(stream)].key
    /\ got.err = NoErr

\* C8 as stated: a tombstoned key is reported with the error KeyNotFound, as
\* an absent key is.
C8_TombstoneIsNotFound ==
    (got # NoCall /\ Nil \in Written(got.key)) => got.err = KeyNotFound

\* Range scans of a written segment and of the memory segment it came from
InitScan == InitWith(ScanStreams)
NextScan ==
    \/ Flush
    \/ \E lower \in LookupBounds, upper \in LookupBounds :
          OpenDisk(lower, upper) \/ OpenMem(lower, upper)
    \/ CallNext
    \/ CallPeek
SpecScan == InitScan /\ [][NextScan]_vars

\* the keys Next returned before its first error
RECURSIVE Yielded(_)
Yielded(results) ==
    IF results = <<>> \/ results[1].err # NoErr THEN <<>>
    ELSE <<results[1].key>> \o Yielded(Tail(results))

\* the first error Next returned ("nil" when there is none yet)
FirstErr(results) ==
    LET errs == SelectSeq(results, LAMBDA r : r.err # NoErr)
    IN  IF errs = <<>> THEN NoErr ELSE errs[1].err

\* the stream's keys k with lower <= k <= upper, a nil bound being no bound
InBounds(key, lower, upper) ==
    /\ lower = Nil \/ ~less(key, lower)
    /\ upper = Nil \/ ~less(upper, key)
KeysWithin(lower, upper) ==
    LET within == SelectSeq(stream, LAMBDA e : InBounds(e.key, lower, upper))
    IN  [j \in 1..Len(within) |-> within[j].key]

IsPrefix(a, b) == Len(a) <= Len(b) /\ a = SubSeq(b, 1, Len(a))

\* C4: range scan bounds. For every pair (lower, upper), lower > upper
\* included, the keys Next returns on Lookup(lower, upper) of a disk segment
\* until EndOfIterator are exactly the segment's keys within the bounds, in
\* order: none outside the bounds, none inside skipped.
C4_ScanBounds ==
    itr.kind = "disk" =>
        /\ IsPrefix(Yielded(out), KeysWithin(asked[1], asked[2]))
        /\ FirstErr(out) \in {NoErr, EndOfIterator}
        /\ FirstErr(out) = EndOfIterator =>
               Yielded(out) = KeysWithin(asked[1], asked[2])

\* C4 for the bounds that are not crossed: lower <= upper or a nil bound
C4_OrderedBounds ==
    (asked[1] = Nil \/ asked[2] = Nil \/ ~less(asked[2], asked[1])) => C4_ScanBounds

\* C5: order preservation. The unbounded scan Lookup(nil, nil) of a written
\* segment yields every written key once, in strictly ascending order, across
\* the block boundaries.
C5_OrderPreserved ==
    (itr.kind = "disk" /\ asked = <<Nil, Nil>>) =>
        /\ IsPrefix(Yielded(out), KeysWithin(Nil, Nil))
        /\ \A j \in 1..(Len(Yielded(out)) - 1) : less(Yielded(out)[j], Yielded(out)[j + 1])
        /\ FirstErr(out) \in {NoErr, EndOfIterator}
        /\ FirstErr(out) = EndOfIterator => Len(Yielded(out)) = Len(stream)

\* the unbounded scan of the run of all the keys has ended: four blocks, the
\* last opened by a key the writer would compress
C5_Witness ==
    /\ itr.kind = "disk"
    /\ asked = <<Nil, Nil>>
    /\ Len(stream) = NumKeys
    /\ ds.keyBlocks >= 4
    /\ FirstErr(out) = EndOfIterator
    /\ Len(Yielded(out)) = NumKeys

yield(seg, lower, upper) ==
    LET all(r) == IF r.err # NoErr THEN <<>> ELSE drain(seg, r, <<>>)
    IN  all(Lookup(seg, lower, upper))

\* the point get of the table: the segments are asked newest first, and the
\* first that holds the key decides, a tombstone as not found
RECURSIVE tableGet(_, _)
tableGet(segments, key) ==
    IF segments = <<>> THEN [value |-> Nil, err |-> KeyNotFound]
    ELSE LET decide(r) ==
                 IF r.err = KeyNotFound
                 THEN tableGet(SubSeq(segments, 1, Len(segments) - 1), key)
                 ELSE IF r.err = NoErr /\ r.value = Nil
                 THEN [value |-> Nil, err |-> KeyNotFound]
                 ELSE r
         IN  decide(Get(segments[Len(segments)], key))

\* the merge of two runs of entries in key order: on equal keys the newer wins
RECURSIVE mergeEntries(_, _)
mergeEntries(older, newer) ==
    IF older = <<>> THEN newer
    ELSE IF newer = <<>> THEN older
    ELSE IF less(older[1].key, newer[1].key)
    THEN <<older[1]>> \o mergeEntries(Tail(older), newer)
    ELSE IF less(newer[1].key, older[1].key)
    THEN <<newer[1]>> \o mergeEntries(older, Tail(newer))
    ELSE <<newer[1]>> \o mergeEntries(Tail(older), Tail(newer))

\* a run of entries without its tombstones
live(entries) == SelectSeq(entries, LAMBDA e : e.value # Nil)

\* the range scan of the table: the merge of all the segments' iterators,
\* without the tombstones
RECURSIVE mergeAll(_, _, _)
mergeAll(segments, lower, upper) ==
    IF segments = <<>> THEN <<>>
    ELSE mergeEntries(mergeAll(SubSeq(segments, 1, Len(segments) - 1), lower, upper),
                      yield(segments[Len(segments)], lower, upper))
tableScan(segments, lower, upper) == live(mergeAll(segments, lower, upper))

\* the merge of the adjacent segments i and i+1 into one segment, written by
\* the writer; tombstones may be dropped when the merged segment is the oldest.
\* A merge that leaves no entry leaves no segment.
mergeSegments(segments, i, dropRemoved) ==
    LET merged(w) ==
            IF w.err = NoErr
            THEN <<newDiskSegment(w.keyFile, w.dataFile, w.keyIndex, segments[i + 1].id)>>
            ELSE <<>>
        written(both) == merged(writeSegmentFiles(IF dropRemoved THEN live(both) ELSE both))
    IN  SubSeq(segments, 1, i - 1)
            \o written(mergeEntries(yield(segments[i], Nil, Nil),
                                    yield(segments[i + 1], Nil, Nil)))
            \o SubSeq(segments, i + 2, Len(segments))

\* Bounds of the table
MaxFlushes == 3

\* the keys of the table's transactions: a key and a key the writer compresses
\* against it
TableKeys == <<KeyAt(3), KeyAt(4)>>

\* the memory segments a transaction may leave: each key put, removed or not
\* touched, one key at least; transaction f puts the value <<f>>
Transactions(f) ==
    LET entry(j, op) == IF op = "put" THEN <<[key |-> TableKeys[j], value |-> <<f>>]>>
                        ELSE IF op = "remove" THEN <<[key |-> TableKeys[j], value |-> Nil]>>
                        ELSE <<>>
    IN  {entry(1, a) \o entry(2, b) : a \in {"put", "remove", "none"},
                                      b \in {"put", "remove", "none"}} \ {<<>>}

\* the queries of the table: point gets of the keys and of a key between
\* them, and range scans, one of them with crossed bounds
Queries ==
    {[kind |-> "get", key |-> k] : k \in {KeyAt(3), KeyAt(4), KeyAt(3) \o <<0>>}}
    \cup {[kind |-> "scan", lower |-> b[1], upper |-> b[2]] :
            b \in {<<Nil, Nil>>, <<KeyAt(4), Nil>>, <<Nil, KeyAt(3)>>,
                   <<KeyAt(4), KeyAt(3)>>}}

answer(segments, q) ==
    IF q.kind = "get" THEN tableGet(segments, q.key)
    ELSE tableScan(segments, q.lower, q.upper)

\* a transaction's memory segment is written to disk as the newest segment
TableFlush ==
    /\ Len(hist) < MaxFlushes
    /\ \E entries \in Transactions(Len(hist) + 1) :
          LET r == writeAndLoad(NoSegment, memLookup(entries, Nil, Nil), Len(hist) + 1)
          IN  /\ r.err = NoErr
              /\ segs' = Append(segs, r.seg)
              /\ hist' = Append(hist, entries)
    /\ tgot' = NoCall
    /\ pre' = NoCall
    /\ UNCHANGED <<segmentVars, dbVars, flushVars, codecVars, faultVars, indexVars, lockVars>>

\* two adjacent segments are replaced by their merge
TableMerge ==
    /\ \E i \in 1..(Len(segs) - 1), dropRemoved \in BOOLEAN :
          /\ dropRemoved => i = 1
          /\ segs' = mergeSegments(segs, i, dropRemoved)
    /\ pre' = IF tgot = NoCall THEN pre ELSE tgot
    /\ tgot' = NoCall
    /\ UNCHANGED <<hist, segmentVars, dbVars, flushVars, codecVars, faultVars, indexVars, lockVars>>

\* a query of the table; after a merge the query made before it is made again
TableQuery ==
    /\ segs # <<>>
    /\ tgot = NoCall
    /\ \E q \in Queries :
          /\ pre # NoCall => q = pre.q
          /\ tgot' = [q |-> q, r |-> answer(segs, q)]
    /\ UNCHANGED <<segs, hist, pre, segmentVars, dbVars, flushVars, codecVars, faultVars, indexVars, lockVars>>

InitTable ==
    /\ TableIdle
    /\ DbIdle
    /\ FlushIdle
    /\ CodecIdle
    /\ broken = Intact
    /\ IndexIdle
    /\ LockIdle
    /\ stream = <<>>
    /\ ds = NoSegment
    /\ got = NoCall
    /\ itr = NoItr
    /\ asked = <<Nil, Nil>>
    /\ out = <<>>
    /\ peeks = <<>>
    /\ checked = <<>>
    /\ plain = [itr |-> NoItr, out |-> <<>>]
NextTable == TableFlush \/ TableMerge \/ TableQuery
SpecTable == InitTable /\ [][NextTable]_vars

\* the key was put by a transaction and removed by a later one, and no
\* transaction after that touched it
Puts(f, key) == \E j \in 1..Len(hist[f]) : hist[f][j].key = key /\ hist[f][j].value # Nil
Removes(f, key) == \E j \in 1..Len(hist[f]) : hist[f][j].key = key /\ hist[f][j].value = Nil
Hidden(key) ==
    \E a, b \in 1..Len(hist) :
        /\ a < b
        /\ Puts(a, key)
        /\ Removes(b, key)
        /\ \A c \in (b + 1)..Len(hist) : ~Puts(c, key) /\ ~Removes(c, key)

\* C2: tombstone hides. Once put(k, v) is flushed to a segment and remove(k)
\* to a newer one, the table's get(k) returns NotFound in every state,
\* whatever merges of adjacent segments have run.
C2_TombstoneHides ==
    (tgot # NoCall /\ tgot.q.kind = "get" /\ Hidden(tgot.q.key)) =>
        tgot.r = [value |-> Nil, err |-> KeyNotFound]

\* the get of a hidden key after the two newest of three segments were merged,
\* while the oldest segment still holds a value for the key
C2_Witness ==
    /\ tgot # NoCall
    /\ tgot.q.kind = "get"
    /\ Hidden(tgot.q.key)
    /\ Len(hist) = 3
    /\ Len(segs) = 2
    /\ segs[1].id = 1
    /\ Get(segs[1], tgot.q.key).value # Nil
    /\ tgot.r.err = KeyNotFound

\* C3: compaction preserves semantics. After any two adjacent segments are
\* replaced by their merge, every point get and every range scan of the table
\* returns what it returned before the merge.
C3_MergePreserves ==
    (pre # NoCall /\ tgot # NoCall) => tgot.r = pre.r

\* a scan that yields an entry, repeated after the two newest of three
\* segments were merged
C3_Witness ==
    /\ pre # NoCall
    /\ tgot # NoCall
    /\ tgot.q.kind = "scan"
    /\ tgot.r # <<>>
    /\ Len(hist) = 3
    /\ Len(segs) = 2
    /\ segs[1].id = 1

\* ------------------------------------------------------------------------
\* The database directory: open, the flush of a memory segment to a new pair
\* of files, close, and the death of the process.  A file of the directory is
\* [kind, id, tmp, by, complete]: {table}.{kind}.{id} with or without the
\* suffix .tmp, written by the flush `by` (the open and the id of it), with
\* all of its contents or not.

\* Bounds of the directory
MaxOpens == 3
MaxSegments == 2

File(kind, id, tmp) == {f \in dir : f.kind = kind /\ f.id = id /\ f.tmp = tmp}
Exists(kind, id, tmp) == File(kind, id, tmp) # {}

\* loadDiskSegments: the ids of the key files, ascending; it panics on a .tmp
\* file, and newDiskSegment panics when a file of the pair cannot be opened
loadPanics ==
    \/ \E f \in dir : f.tmp
    \/ \E f \in dir : f.kind = "keys" /\ ~Exists("data", f.id, FALSE)
RECURSIVE ascending(_)
ascending(idSet) ==
    IF idSet = {} THEN <<>>
    ELSE LET least == CHOOSE i \in idSet : \A j \in idSet : i <= j
         IN  <<least>> \o ascending(idSet \ {least})
loadDiskSegments == ascending({f.id : f \in {g \in dir : g.kind = "keys"}})

\* open: a new Database, its counter of segment ids at zero
Open ==
    /\ ~db.open
    /\ opens < MaxOpens
    /\ opens' = opens + 1
    /\ IF loadPanics THEN db' = NoDatabase
       ELSE db' = [open |-> TRUE, nextSegID |-> 0, segments |-> loadDiskSegments]
    /\ ids' = <<>>
    /\ UNCHANGED <<dir, wr, segmentVars, tableVars, flushVars, codecVars, faultVars, indexVars, lockVars>>

\* writeSegmentToDisk up to the allocation of the id: db.nextSegmentID()
Allocate ==
    /\ db.open
    /\ wr = NoWriter
    /\ Len(ids) < MaxSegments
    /\ db' = [db EXCEPT !.nextSegID = db.nextSegID + 1]
    /\ ids' = Append(ids, db.nextSegID + 1)
    /\ wr' = [pc |-> "createKey", id |-> db.nextSegID + 1]
    /\ UNCHANGED <<dir, opens, segmentVars, tableVars, flushVars, codecVars, faultVars, indexVars, lockVars>>

\* os.OpenFile(name, O_CREATE|O_WRONLY): the file is created unless it exists
create(kind, id) ==
    IF Exists(kind, id, TRUE) THEN dir
    ELSE dir \cup {[kind |-> kind, id |-> id, tmp |-> TRUE,
                    by |-> <<opens, id>>, complete |-> FALSE]}

\* writeSegmentFiles: the key file is opened
CreateKey ==
    /\ wr.pc = "createKey"
    /\ \E ok \in BOOLEAN :
          IF ok THEN /\ dir' = create("keys", wr.id)
                     /\ wr' = [wr EXCEPT !.pc = "createData"]
          ELSE /\ dir' = dir
               /\ wr' = [wr EXCEPT !.pc = "failed"]
    /\ UNCHANGED <<db, ids, opens, segmentVars, tableVars, flushVars, codecVars, faultVars, indexVars, lockVars>>

\* writeSegmentFiles: the data file is opened
CreateData ==
    /\ wr.pc = "createData"
    /\ \E ok \in BOOLEAN :
          IF ok THEN /\ dir' = create("data", wr.id)
                     /\ wr' = [wr EXCEPT !.pc = "write"]
          ELSE /\ dir' = dir
               /\ wr' = [wr EXCEPT !.pc = "failed"]
    /\ UNCHANGED <<db, ids, opens, segmentVars, tableVars, flushVars, codecVars, faultVars, indexVars, lockVars>>

\* writeSegmentFiles: the entries are written and both files flushed, or a
\* write fails
WriteFiles ==
    /\ wr.pc = "write"
    /\ \E ok \in BOOLEAN :
          IF ok THEN /\ dir' = {IF f.id = wr.id /\ f.tmp
                                 THEN [f EXCEPT !.complete = TRUE, !.by = <<opens, wr.id>>]
                                 ELSE f : f \in dir}
                     /\ wr' = [wr EXCEPT !.pc = "renameKey"]
          ELSE /\ dir' = dir
               /\ wr' = [wr EXCEPT !.pc = "failed"]
    /\ UNCHANGED <<db, ids, opens, segmentVars, tableVars, flushVars, codecVars, faultVars, indexVars, lockVars>>

\* writeAndLoadSegment on an error of writeSegmentFiles: both temp files are
\* removed and the flush ends
RemoveTemps ==
    /\ wr.pc = "failed"
    /\ dir' = {f \in dir : ~(f.id = wr.id /\ f.tmp)}
    /\ wr' = NoWriter
    /\ UNCHANGED <<db, ids, opens, segmentVars, tableVars, flushVars, codecVars, faultVars, indexVars, lockVars>>

\* os.Rename(name.tmp, name): the file takes the final name, replacing a file
\* of that name; when it fails nothing changes
rename(kind, id) ==
    IF ~Exists(kind, id, TRUE) THEN dir
    ELSE (dir \ (File(kind, id, TRUE) \cup File(kind, id, FALSE)))
         \cup {[f EXCEPT !.tmp = FALSE] : f \in File(kind, id, TRUE)}

\* writeAndLoadSegment: the rename of the key file, its error ignored
RenameKey ==
    /\ wr.pc = "renameKey"
    /\ \E ok \in BOOLEAN : dir' = IF ok THEN rename("keys", wr.id) ELSE dir
    /\ wr' = [wr EXCEPT !.pc = "renameData"]
    /\ UNCHANGED <<db, ids, opens, segmentVars, tableVars, flushVars, codecVars, faultVars, indexVars, lockVars>>

\* writeAndLoadSegment: the rename of the data file, its error ignored
RenameData ==
    /\ wr.pc = "renameData"
    /\ \E ok \in BOOLEAN : dir' = IF ok THEN rename("data", wr.id) ELSE dir
    /\ wr' = [wr EXCEPT !.pc = "load"]
    /\ UNCHANGED <<db, ids, opens, segmentVars, tableVars, flushVars, codecVars, faultVars, indexVars, lockVars>>

\* the process is gone: its Database with it, the directory stays
dead ==
    /\ db' = NoDatabase
    /\ wr' = NoWriter
    /\ ids' = <<>>
    /\ UNCHANGED <<dir, opens, segmentVars, tableVars, flushVars, codecVars, faultVars, indexVars, lockVars>>

\* newDiskSegment on the final names and the swap into the table's segments;
\* newDiskSegment panics when a file of the pair cannot be opened
Load ==
    /\ wr.pc = "load"
    /\ IF Exists("keys", wr.id, FALSE) /\ Exists("data", wr.id, FALSE)
       THEN /\ db' = [db EXCEPT !.segments = Append(db.segments, wr.id)]
            /\ wr' = NoWriter
            /\ UNCHANGED <<dir, ids, opens, segmentVars, tableVars, flushVars, codecVars, faultVars, indexVars, lockVars>>
       ELSE dead

\* Close: waits for the writers, closes the segments, releases the lockfile
Close ==
    /\ db.open
    /\ wr = NoWriter
    /\ dead

\* the process dies in the middle of a flush
Crash ==
    /\ db.open
    /\ wr # NoWriter
    /\ dead

InitDb ==
    /\ DbIdle
    /\ TableIdle
    /\ FlushIdle
    /\ CodecIdle
    /\ broken = Intact
    /\ IndexIdle
    /\ LockIdle
    /\ stream = <<>>
    /\ ds = NoSegment
    /\ got = NoCall
    /\ itr = NoItr
    /\ asked = <<Nil, Nil>>
    /\ out = <<>>
    /\ peeks = <<>>
    /\ checked = <<>>
    /\ plain = [itr |-> NoItr, out |-> <<>>]
NextDb ==
    \/ Open \/ Allocate \/ CreateKey \/ CreateData \/ WriteFiles \/ RemoveTemps
    \/ RenameKey \/ RenameData \/ Load \/ Close \/ Crash
SpecDb == InitDb /\ [][NextDb]_vars

\* The same directory driven by open, flush, close and reopen alone: no
\* process dies in the middle of a flush
NextReopen ==
    \/ Open \/ Allocate \/ CreateKey \/ CreateData \/ WriteFiles \/ RemoveTemps
    \/ RenameKey \/ RenameData \/ Load \/ Close
SpecReopen == InitDb /\ [][NextReopen]_vars

\* the ids of the model's files
FileIds == 1..MaxSegments

\* C9: atomic publication. In every state of a segment write, a crash or a
\* failure at any step included, the directory holds for an id either both
\* final-named files, complete, or neither: never the final-named key file
\* without the final-named data file.
C9_AtomicPublication ==
    \A id \in FileIds :
        /\ Exists("keys", id, FALSE) <=> Exists("data", id, FALSE)
        /\ \A f \in File("keys", id, FALSE) \cup File("data", id, FALSE) : f.complete

\* C10: segment ids never conflict. The id nextSegmentID returns is greater
\* than every id it returned before to this Database, and is not the id of a
\* committed pair of segment files already in the directory.
C10_FreshIds ==
    /\ \A j \in 1..(Len(ids) - 1) : ids[j] < ids[j + 1]
    /\ wr.pc = "createKey" =>
           ~(Exists("keys", wr.id, FALSE) /\ Exists("data", wr.id, FALSE))

\* C10, within one open only: the ids nextSegmentID returns ascend
C10_AscendingInSession ==
    \A j \in 1..(Len(ids) - 1) : ids[j] < ids[j + 1]

\* ------------------------------------------------------------------------
\* The flush of the memory segments of one table: every commit appends its
\* memory segment to the table's segments and starts a writeSegmentToDisk
\* goroutine for it; the goroutines and Close run concurrently.  A segment of
\* the list is the memory segment of commit n, or the disk segment with an id
\* that was written from it.

\* Bounds of the flushes
MaxCommits == 3

memorySegment(n) == [kind |-> "mem", n |-> n]
diskSegment(id, n) == [kind |-> "disk", id |-> id, n |-> n]
NilSegment == [kind |-> "nil"]

\* an error of the operating system on a file
errIO == "errIO"

\* the memory segments a commit may leave: without an entry, or with entries
MemSegments == {<<>>, Window(3, 4)}

\* the Database after open: the compaction worker is counted in the wait group
Opened ==
    [open |-> TRUE, closing |-> FALSE, wg |-> 1, nextSegID |-> 0, merger |-> TRUE,
     pc |-> "open", segmentsClosed |-> FALSE, lockfile |-> TRUE]

\* a commit: the memory segment becomes the newest segment of the table and
\* its writer is started, counted in the wait group
Commit ==
    /\ sess.open
    /\ ~sess.closing
    /\ Len(tasks) < MaxCommits
    /\ \E entries \in MemSegments :
          tasks' = Append(tasks, [pc |-> "lookup", entries |-> entries, id |-> 0,
                                  err |-> NoErr, ds |-> NilSegment])
    /\ list' = Append(list, memorySegment(Len(tasks) + 1))
    /\ sess' = [sess EXCEPT !.wg = sess.wg + 1]
    /\ UNCHANGED <<swap, dir, db, wr, ids, opens, segmentVars, tableVars, codecVars, faultVars, indexVars, lockVars>>

\* writeSegmentToDisk up to the file names: seg.Lookup(nil, nil) of the memory
\* segment, which returns no error, and db.nextSegmentID()
TaskLookup(n) ==
    /\ tasks[n].pc = "lookup"
    /\ tasks' = [tasks EXCEPT ![n].pc = "write", ![n].id = sess.nextSegID + 1]
    /\ sess' = [sess EXCEPT !.nextSegID = sess.nextSegID + 1]
    /\ UNCHANGED <<list, swap, dir, db, wr, ids, opens, segmentVars, tableVars, codecVars, faultVars, indexVars, lockVars>>

\* the temp files writeSegmentFiles leaves when the step `fault` of it fails:
\* none when the key file cannot be opened, the key file when the data file
\* cannot be opened, both otherwise; they are complete when nothing failed
tempFiles(id, fault) ==
    {[kind |-> kind, id |-> id, tmp |-> TRUE, by |-> <<opens, id>>,
      complete |-> fault = "none"] :
        kind \in CASE fault = "openKey"  -> {}
                   [] fault = "openData" -> {"keys"}
                   [] OTHER              -> {"keys", "data"}}

\* the error writeSegmentFiles returns
writeError(entries, fault) ==
    IF fault # "none" THEN errIO
    ELSE writeSegmentFiles(drain(NoSegment, memLookup(entries, Nil, Nil), <<>>)).err

WriteFaults == {"none", "openKey", "openData", "write"}

\* writeAndLoadSegment: writeSegmentFiles on the temp names
TaskWrite(n) ==
    /\ tasks[n].pc = "write"
    /\ \E fault \in WriteFaults :
          /\ dir' = dir \cup tempFiles(tasks[n].id, fault)
          /\ tasks' = [tasks EXCEPT ![n].err = writeError(tasks[n].entries, fault),
                                    ![n].pc = IF writeError(tasks[n].entries, fault) = NoErr
                                              THEN "rename" ELSE "remove"]
    /\ UNCHANGED <<list, sess, swap, db, wr, ids, opens, segmentVars, tableVars, codecVars, faultVars, indexVars, lockVars>>

\* a removal that leaves the temp file of the data
removeTemps_keyFileOnly(files, id) == {f \in files : ~(f.id = id /\ f.tmp /\ f.kind = "keys")}

\* os.Remove of both temp files
removeTemps(files, id) == {f \in files : ~(f.id = id /\ f.tmp)}

\* a writeSegmentToDisk that goes on to the swap after every error
aborts_never(err) == FALSE

\* writeSegmentToDisk returns the error of writeAndLoadSegment
aborts(err) == err # NoErr /\ err # errEmptySegment

\* writeAndLoadSegment on an error of writeSegmentFiles: the temp files are
\* removed and the error returned; writeSegmentToDisk returns it unless it is
\* errEmptySegment, and its deferred db.wg.Done() runs
TaskRemove(n) ==
    /\ tasks[n].pc = "remove"
    /\ dir' = removeTemps(dir, tasks[n].id)
    /\ IF aborts(tasks[n].err)
       THEN /\ tasks' = [tasks EXCEPT ![n].pc = "done"]
            /\ sess' = [sess EXCEPT !.wg = sess.wg - 1]
       ELSE /\ tasks' = [tasks EXCEPT ![n].pc = "swap"]
            /\ sess' = sess
    /\ UNCHANGED <<list, swap, db, wr, ids, opens, segmentVars, tableVars, codecVars, faultVars, indexVars, lockVars>>

\* the two renames of writeAndLoadSegment on a directory
renamed(files, id, okKey, okData) ==
    {IF f.id = id /\ f.tmp /\ ((f.kind = "keys" /\ okKey) \/ (f.kind = "data" /\ okData))
     THEN [f EXCEPT !.tmp = FALSE] ELSE f : f \in files}

\* a panic ends the process: its Database and goroutines are gone
panicked ==
    /\ sess' = NoSession
    /\ tasks' = <<>>
    /\ list' = <<>>
    /\ swap' = NoSwap

\* writeAndLoadSegment: the renames, their errors ignored, and newDiskSegment
\* on the final names, which panics when a file of the pair cannot be opened
TaskRename(n) ==
    /\ tasks[n].pc = "rename"
    /\ \E okKey \in BOOLEAN, okData \in BOOLEAN :
          /\ dir' = renamed(dir, tasks[n].id, okKey, okData)
          /\ IF okKey /\ okData
             THEN /\ tasks' = [tasks EXCEPT ![n].pc = "swap",
                                            ![n].ds = diskSegment(tasks[n].id, n)]
                  /\ UNCHANGED <<list, sess, swap, codecVars, faultVars, indexVars, lockVars>>
             ELSE panicked
    /\ UNCHANGED <<db, wr, ids, opens, segmentVars, tableVars, codecVars, faultVars, indexVars, lockVars>>

\* the loop of writeSegmentToDisk over the table's segments from segment i on:
\* seg gives way to the disk segment, or to nothing when there is none
RECURSIVE swapLoop(_, _, _, _, _)
swapLoop(tableSegments, i, seg, d, segments) ==
    IF i > Len(tableSegments) THEN segments
    ELSE swapLoop(tableSegments, i + 1, seg, d,
                  IF tableSegments[i] = seg
                  THEN (IF d # NilSegment THEN Append(segments, d) ELSE segments)
                  ELSE Append(segments, tableSegments[i]))

\* a swap that puts the disk segment behind all the segments
swapSegment_atTheEnd(tableSegments, seg, d) ==
    SelectSeq(tableSegments, LAMBDA v : v # seg) \o (IF d # NilSegment THEN <<d>> ELSE <<>>)

\* the segments writeSegmentToDisk assigns to the table
swapSegment(tableSegments, seg, d) == swapLoop(tableSegments, 1, seg, d, <<>>)

\* writeSegmentToDisk under the table's lock: the swap, and the deferred
\* db.wg.Done()
TaskSwap(n) ==
    /\ tasks[n].pc = "swap"
    /\ list' = swapSegment(list, memorySegment(n), tasks[n].ds)
    /\ swap' = [n |-> n, ds |-> tasks[n].ds, before |-> list,
                after |-> swapSegment(list, memorySegment(n), tasks[n].ds)]
    /\ tasks' = [tasks EXCEPT ![n].pc = "done"]
    /\ sess' = [sess EXCEPT !.wg = sess.wg - 1]
    /\ UNCHANGED <<dir, db, wr, ids, opens, segmentVars, tableVars, codecVars, faultVars, indexVars, lockVars>>

\* the compaction worker sees closing and ends: its db.wg.Done()
MergerExit ==
    /\ sess.merger
    /\ sess.closing
    /\ sess' = [sess EXCEPT !.merger = FALSE, !.wg = sess.wg - 1]
    /\ UNCHANGED <<list, tasks, swap, dbVars, segmentVars, tableVars, codecVars, faultVars, indexVars, lockVars>>

\* Close up to the checks of db.open and of the open transactions
CloseCheck ==
    /\ sess.open
    /\ sess.pc = "open"
    /\ sess' = [sess EXCEPT !.pc = "setClosing"]
    /\ UNCHANGED <<list, tasks, swap, dbVars, segmentVars, tableVars, codecVars, faultVars, indexVars, lockVars>>

\* Close: db.closing = true
SetClosing ==
    /\ sess.pc = "setClosing"
    /\ sess' = [sess EXCEPT !.closing = TRUE, !.pc = "wait"]
    /\ UNCHANGED <<list, tasks, swap, dbVars, segmentVars, tableVars, codecVars, faultVars, indexVars, lockVars>>

\* a Wait that returns at once
wgWait_noWait == TRUE

\* db.wg.Wait() returns when the counter is zero
wgWait == sess.wg = 0

\* Close: db.wg.Wait()
Wait ==
    /\ sess.pc = "wait"
    /\ wgWait
    /\ sess' = [sess EXCEPT !.pc = "merge"]
    /\ UNCHANGED <<list, tasks, swap, dbVars, segmentVars, tableVars, codecVars, faultVars, indexVars, lockVars>>

\* the final merge: the two oldest segments give way to their merge, a disk
\* segment with a new id that stands for the newer of them
finalMerge(segments, id) ==
    IF Len(segments) < 2 THEN segments
    ELSE <<diskSegment(id, segments[2].n)>> \o SubSeq(segments, 3, Len(segments))

\* Close: mergeDiskSegments0(db, maxSegments)
FinalMerge ==
    /\ sess.pc = "merge"
    /\ list' = finalMerge(list, sess.nextSegID + 1)
    /\ sess' = [sess EXCEPT !.pc = "closeSegments",
                            !.nextSegID = IF Len(list) < 2 THEN sess.nextSegID
                                          ELSE sess.nextSegID + 1]
    /\ UNCHANGED <<tasks, swap, dbVars, segmentVars, tableVars, codecVars, faultVars, indexVars, lockVars>>

\* Close: segment.Close() on every segment of every table
CloseSegments ==
    /\ sess.pc = "closeSegments"
    /\ sess' = [sess EXCEPT !.segmentsClosed = TRUE, !.pc = "unlock"]
    /\ UNCHANGED <<list, tasks, swap, dbVars, segmentVars, tableVars, codecVars, faultVars, indexVars, lockVars>>

\* Close: db.lockfile.Unlock() and db.open = false
Unlock ==
    /\ sess.pc = "unlock"
    /\ sess' = [sess EXCEPT !.lockfile = FALSE, !.open = FALSE, !.pc = "closed"]
    /\ UNCHANGED <<list, tasks, swap, dbVars, segmentVars, tableVars, codecVars, faultVars, indexVars, lockVars>>

InitFlush ==
    /\ TableIdle
    /\ DbIdle
    /\ list = <<>>
    /\ tasks = <<>>
    /\ sess = Opened
    /\ swap = NoSwap
    /\ CodecIdle
    /\ broken = Intact
    /\ IndexIdle
    /\ LockIdle
    /\ stream = <<>>
    /\ ds = NoSegment
    /\ got = NoCall
    /\ itr = NoItr
    /\ asked = <<Nil, Nil>>
    /\ out = <<>>
    /\ peeks = <<>>
    /\ checked = <<>>
    /\ plain = [itr |-> NoItr, out |-> <<>>]
NextFlush ==
    \/ Commit
    \/ \E n \in 1..Len(tasks) :
          TaskLookup(n) \/ TaskWrite(n) \/ TaskRemove(n) \/ TaskRename(n) \/ TaskSwap(n)
    \/ MergerExit \/ CloseCheck \/ SetClosing \/ Wait \/ FinalMerge \/ CloseSegments
    \/ Unlock
SpecFlush == InitFlush /\ [][NextFlush]_vars

\* C11: flush swap is in place. When writeSegmentToDisk succeeds for the
\* memory segment m, the table's segments after the swap are the segments
\* before it with m replaced at its position by the new disk segment; every
\* other segment is kept where it was.
C11_SwapInPlace ==
    (swap # NoSwap /\ swap.ds # NilSegment) =>
        /\ swap.ds.kind = "disk"
        /\ Len(swap.after) = Len(swap.before)
        /\ Cardinality({i \in 1..Len(swap.before) :
                           swap.before[i] = memorySegment(swap.n)}) = 1
        /\ \A i \in 1..Len(swap.before) :
               swap.after[i] = IF swap.before[i] = memorySegment(swap.n)
                               THEN swap.ds ELSE swap.before[i]

\* the memory segment between a disk segment and a newer memory segment has
\* given way to its disk segment
C11_Witness ==
    /\ swap # NoSwap
    /\ swap.ds # NilSegment
    /\ Len(swap.before) = 3
    /\ swap.before[1].kind = "disk"
    /\ swap.before[2] = memorySegment(swap.n)
    /\ swap.before[3].kind = "mem"
    /\ list = swap.after

\* the places of a segment in a list of segments
Places(segments, seg) == {i \in 1..Len(segments) : segments[i] = seg}

\* the files of the directory that carry the id, temp files and final ones
FilesOf(id) == {f \in dir : f.id = id}

\* C12: empty segment. When the memory segment has no entry, writeSegmentFiles
\* fails with errEmptySegment (or with the error of a failed file operation),
\* writeAndLoadSegment removes both temp files and publishes no file, and
\* writeSegmentToDisk takes the memory segment out of the table's segments,
\* puts no disk segment in and leaves the other segments in their order.
C12_EmptySegment ==
    \A n \in 1..Len(tasks) :
        tasks[n].entries = <<>> =>
            /\ tasks[n].pc # "rename"
            /\ tasks[n].ds = NilSegment
            /\ tasks[n].pc \in {"remove", "swap", "done"} =>
                   tasks[n].err \in {errEmptySegment, errIO}
            /\ (tasks[n].err = errEmptySegment /\ tasks[n].pc \in {"swap", "done"}) =>
                   FilesOf(tasks[n].id) = {}
            /\ (tasks[n].err = errEmptySegment /\ tasks[n].pc = "done") =>
                   \A i \in 1..Len(list) : list[i].n # n
            /\ swap.n = n =>
                   /\ swap.ds = NilSegment
                   /\ Cardinality(Places(swap.before, memorySegment(n))) = 1
                   /\ swap.after = SelectSeq(swap.before, LAMBDA v : v # memorySegment(n))

\* an empty memory segment between two other segments was taken out of the
\* list, while the files of another segment are in the directory
C12_Witness ==
    /\ swap # NoSwap
    /\ swap.ds = NilSegment
    /\ tasks[swap.n].entries = <<>>
    /\ tasks[swap.n].pc = "done"
    /\ Len(swap.before) = 3
    /\ swap.before[2] = memorySegment(swap.n)
    /\ Len(swap.after) = 2
    /\ dir # {}

\* Close has not come to its final merge
BeforeFinalMerge == sess.pc \in {"open", "setClosing", "wait", "merge"}

\* the segments of the list stand in the order of their commits
InCommitOrder(segments) ==
    \A i \in 1..(Len(segments) - 1) : segments[i].n < segments[i + 1].n

\* C13: a failed flush leaves the list as it is. When the segment write fails
\* with an error other than errEmptySegment, writeSegmentToDisk returns without
\* a swap: the memory segment is still in the table's segments, at its
\* position, and no temp file of the write is left in the directory.
C13_FailureKeepsList ==
    \A n \in 1..Len(tasks) :
        (tasks[n].pc = "done" /\ tasks[n].err \notin {NoErr, errEmptySegment}) =>
            /\ swap.n # n
            /\ BeforeFinalMerge =>
                   /\ Cardinality(Places(list, memorySegment(n))) = 1
                   /\ InCommitOrder(list)
            /\ {f \in FilesOf(tasks[n].id) : f.tmp} = {}

\* the flush of the second of three segments has failed and the flush of the
\* third has succeeded: the memory segment stands between two disk segments
C13_Witness ==
    /\ Len(tasks) = 3
    /\ tasks[2].pc = "done"
    /\ tasks[2].err = errIO
    /\ Len(list) = 3
    /\ list[1].kind = "disk"
    /\ list[2] = memorySegment(2)
    /\ list[3].kind = "disk"

\* a writeSegmentToDisk goroutine or the compaction worker is running
Running == sess.merger \/ \E n \in 1..Len(tasks) : tasks[n].pc # "done"

\* C14: Close is a graceful drain with a fixed order. Close sets closing, then
\* waits until every writeSegmentToDisk goroutine and the compaction worker
\* have finished, then runs the final merge, then closes the segments, then
\* releases the lockfile and marks the database not open. No segment is closed
\* and the lockfile is not released while a writer or the worker runs, and so
\* no flush swaps the segments after they were closed.
C14_GracefulDrain ==
    /\ sess.pc \in {"wait", "merge", "closeSegments", "unlock", "closed"} => sess.closing
    /\ sess.pc \in {"merge", "closeSegments", "unlock", "closed"} =>
           /\ ~Running
           /\ sess.wg = 0
    /\ sess.segmentsClosed <=> sess.pc \in {"unlock", "closed"}
    /\ sess.pc = "closed" <=> (sess.closing /\ ~sess.lockfile /\ ~sess.open)
    /\ (sess.segmentsClosed \/ (sess.closing /\ ~sess.lockfile)) => ~Running

\* the database is closed after three flushes, one of them a swap, and the
\* final merge has left a merged segment
C14_Witness ==
    /\ sess.pc = "closed"
    /\ Len(tasks) = MaxCommits
    /\ swap # NoSwap
    /\ list # <<>>
    /\ list[1].id = sess.nextSegID

\* ------------------------------------------------------------------------
\* The layout of a written key file, read entry by entry

\* block b of a key file
BlockOf(file, b) == SubSeq(file, b * keyBlockSize + 1, (b + 1) * keyBlockSize)

\* the length of the key bytes an entry with this keylen carries
TailLen(keylen) == IF keylen >= compressedBit THEN keylen % 256 ELSE keylen

\* the entries of a block from position pos on, as [pos, keylen], up to the
\* end-of-block marker; followed by [pos |-> -1] when an entry or the marker
\* does not lie within the block
RECURSIVE EntriesFrom(_, _)
EntriesFrom(blk, pos) ==
    LET walk(keylen) ==
            IF keylen = endOfBlock THEN <<>>
            ELSE IF TailLen(keylen) = 0 \/ pos + 2 + TailLen(keylen) + 12 > Len(blk)
            THEN <<[pos |-> -1, keylen |-> keylen]>>
            ELSE <<[pos |-> pos, keylen |-> keylen]>>
                 \o EntriesFrom(blk, pos + 2 + TailLen(keylen) + 12)
    IN  IF pos + 2 > Len(blk) THEN <<[pos |-> -1, keylen |-> 0]>>
        ELSE walk(Uint16(blk, pos))

\* the blocks of the key file of the written segment, each as its entries
BlockCount == Len(ds.keyFile) \div keyBlockSize
Blocks == [b \in 0..(BlockCount - 1) |-> EntriesFrom(BlockOf(ds.keyFile, b), 0)]

RECURSIVE SumLen(_, _)
SumLen(f, n) == IF n = 0 THEN 0 ELSE Len(f[n - 1]) + SumLen(f, n - 1)

FirstKeyOf(b) ==
    SubSeq(BlockOf(ds.keyFile, b), 3, 2 + Uint16(BlockOf(ds.keyFile, b), 0))

\* C16: sparse-index monotonicity. The sparse index writeSegmentFiles returns
\* is strictly ascending, has exactly ceil(keyBlocks / keyIndexInterval)
\* elements, and its element i is the first key of key block
\* i * keyIndexInterval of the written key file.
C16_SparseIndex ==
    ds # NoSegment =>
        /\ ds.keyIndex # NilIndex
        /\ Len(ds.keyIndex) = (ds.keyBlocks + keyIndexInterval - 1) \div keyIndexInterval
        /\ \A i \in 0..(Len(ds.keyIndex) - 1) :
               ds.keyIndex[i + 1] = FirstKeyOf(i * keyIndexInterval)
        /\ \A i \in 1..(Len(ds.keyIndex) - 1) : less(ds.keyIndex[i], ds.keyIndex[i + 1])

\* a segment of three blocks with the two index keys of the blocks 0 and 2
C16_Witness ==
    /\ ds # NoSegment
    /\ ds.keyBlocks = 3
    /\ Len(ds.keyIndex) = 2
    /\ ds.keyIndex[2] = FirstKeyOf(2)
    /\ ds.keyIndex[2] # FirstKeyOf(1)

\* the data pointer of the entry e of block b: dataOffset and dataLen as
\* written behind the key bytes
PointerAt(b, e) ==
    [dataOffset |-> Uint64(BlockOf(ds.keyFile, b), e.pos + 2 + TailLen(e.keylen)),
     dataLen |-> Uint32(BlockOf(ds.keyFile, b), e.pos + 2 + TailLen(e.keylen) + 8)]

\* the data pointers of the first n blocks of the key file, in file order
RECURSIVE PointersOf(_)
PointersOf(n) ==
    IF n = 0 THEN <<>>
    ELSE PointersOf(n - 1)
         \o [j \in 1..Len(Blocks[n - 1]) |-> PointerAt(n - 1, Blocks[n - 1][j])]
Pointers == PointersOf(BlockCount)

\* the bytes of the values of the first n entries of the stream, a removed
\* key having none
RECURSIVE DataOf(_)
DataOf(n) == IF n = 0 THEN <<>> ELSE DataOf(n - 1) \o Bytes(stream[n].value)

EndOfNext == [key |-> Nil, value |-> Nil, err |-> EndOfIterator]
EndOfPeek == [key |-> Nil, err |-> EndOfIterator]

\* C19: EndOfIterator is final. Once Next or peekKey on a disk-segment or
\* memory-segment iterator has returned EndOfIterator, every later Next and
\* peekKey on it returns EndOfIterator with a nil key, never an entry.
C19_EndIsFinal ==
    itr # NoItr =>
        /\ \A j \in 1..Len(out) : out[j].err = EndOfIterator =>
               \A k \in j..Len(out) : out[k] = EndOfNext
        /\ (out # <<>> /\ out[Len(out)].err = EndOfIterator) =>
               \A j \in 1..Len(peeks) : peeks[j] = EndOfPeek
        /\ \A j \in 1..Len(peeks) : peeks[j].err = EndOfIterator =>
               \A k \in j..Len(peeks) : peeks[k] = EndOfPeek
        /\ \A j \in 1..Len(checked) : checked[j].err = EndOfIterator =>
               /\ \A k \in j..Len(checked) : checked[k] = EndOfPeek
               /\ out[Len(out)] = EndOfNext
               /\ \A k \in 1..Len(peeks) : peeks[k] = EndOfPeek

\* a disk iterator that met the first key beyond its upper bound with keys of
\* the segment left: Next returned EndOfIterator, peekKey was called as
\* often as the model allows, and Next was called again
C19_Witness ==
    /\ itr.kind = "disk"
    /\ asked[2] # Nil
    /\ Ends(out) = MaxEnd
    /\ Len(Yielded(out)) \in 1..(Len(stream) - 1)
    /\ Len(checked) = MaxPeeks

\* ------------------------------------------------------------------------
\* The codec on one key and the key before it in the block

\* the lengths of the common prefix and of the rest of the key: at and around
\* the limits of the compression
PrefixLens == {1, 2, 126, 127, 128, 200}
TailLens == {1, 2, 254, 255, 256}

\* prevKey < key: the previous key is a prefix of the key, or the two part
\* after their common prefix, or share nothing, or there is no previous key
CodecPairs ==
    {[prevKey |-> Pad(7, p), key |-> Pad(7, p) \o Pad(9, t)] :
        p \in PrefixLens, t \in TailLens}
    \cup {[prevKey |-> Pad(7, p) \o <<1>>, key |-> Pad(7, p) \o Pad(9, t)] :
        p \in PrefixLens, t \in TailLens}
    \cup {[prevKey |-> <<1>>, key |-> <<2>> \o Pad(9, t)] : t \in TailLens}
    \cup {[prevKey |-> Nil, key |-> Pad(7, n)] : n \in {1, 255, 256, maxKeySize}}
    \cup {[prevKey |-> Pad(7, maxKeySize - 1), key |-> Pad(7, maxKeySize)]}

\* the writer's encodeKey(key, prevKey)
Encode ==
    /\ coded = NotCoded
    /\ coded' = [stage |-> "encoded", dk |-> encodeKey(pair.key, pair.prevKey)]
    /\ UNCHANGED <<pair, segmentVars, tableVars, dbVars, flushVars, faultVars, indexVars, lockVars>>

\* the block the writer lays out for the pair: the previous key as the first
\* entry of the block, then the entry of the diskkey
blockOfPair(prevKey, dk) ==
    (IF prevKey = Nil THEN <<>>
     ELSE PutUint(Len(prevKey), 2) \o prevKey \o Pad(0, 12))
    \o PutUint(dk.keylen, 2) \o dk.compressedKey \o Pad(0, 12)

\* the iterator's decoding of the entry at keylenPos of the buffer, with the
\* running prevKey: decodeKeyLen and decodeKey
decodeEntry(buffer, prevKey, keylenPos) ==
    LET decoded(k, d) == [k |-> k, key |-> sliceBytes(d.buffer, d.key)]
        lengths(k) ==
            IF k.err # NoErr THEN [k |-> k, key |-> Nil]
            ELSE decoded(k, decodeKey(buffer, prevKey, k.prefixLen, keylenPos + 2,
                                      k.compressedLen))
    IN  lengths(decodeKeyLen(Uint16(buffer, keylenPos)))

\* the reader's decodeKeyLen and decodeKey on the entry in its block
Decode ==
    /\ coded.stage = "encoded"
    /\ coded' = [stage |-> "decoded", dk |-> coded.dk]
                @@ decodeEntry(blockOfPair(pair.prevKey, coded.dk),
                               IF pair.prevKey = Nil THEN NoSlice
                               ELSE [pos |-> 2, len |-> Len(pair.prevKey)],
                               IF pair.prevKey = Nil THEN 0
                               ELSE 2 + Len(pair.prevKey) + 12)
    /\ UNCHANGED <<pair, segmentVars, tableVars, dbVars, flushVars, faultVars, indexVars, lockVars>>

InitCodec ==
    /\ TableIdle
    /\ DbIdle
    /\ FlushIdle
    /\ pair \in CodecPairs
    /\ coded = NotCoded
    /\ broken = Intact
    /\ IndexIdle
    /\ LockIdle
    /\ stream = <<>>
    /\ ds = NoSegment
    /\ got = NoCall
    /\ itr = NoItr
    /\ asked = <<Nil, Nil>>
    /\ out = <<>>
    /\ peeks = <<>>
    /\ checked = <<>>
    /\ plain = [itr |-> NoItr, out |-> <<>>]
NextCodec == Encode \/ Decode
SpecCodec == InitCodec /\ [][NextCodec]_vars

\* the common prefix of the pair, none without a previous key
Shared == IF pair.prevKey = Nil THEN 0 ELSE CommonLen(pair.prevKey, pair.key)

\* the flag and the prefix length a keylen carries
IsCompressed(keylen) == keylen >= compressedBit
PrefixOf(keylen) == IF IsCompressed(keylen) THEN (keylen - compressedBit) \div 256 ELSE 0

\* C17: prefix-compression round trip. For every key and previous key of the
\* block with prevKey < key (none at the start of a block), encodeKey emits a
\* prefix length of at most min(127, len(prevKey)) and a tail of 1..255 bytes
\* when it compresses, and the full key with prefix length 0 when a limit
\* would be exceeded; decodeKeyLen takes the keylen without an error, the
\* keylen is never the end-of-block marker, and decodeKey with the running
\* prevKey gives back the key, which is greater than prevKey.
C17_CodecRoundTrip ==
    /\ coded # NotCoded =>
           /\ coded.dk.keylen # endOfBlock
           /\ PrefixOf(coded.dk.keylen) <= Min(maxPrefixLen, GoLen(pair.prevKey))
           /\ IsCompressed(coded.dk.keylen) =>
                  /\ Len(coded.dk.compressedKey) \in 1..maxCompressedLen
                  /\ TailLen(coded.dk.keylen) = Len(coded.dk.compressedKey)
                  /\ PrefixOf(coded.dk.keylen) = Shared
                  /\ coded.dk.compressedKey = SubSeq(pair.key, Shared + 1, Len(pair.key))
           /\ ~IsCompressed(coded.dk.keylen) =>
                  /\ coded.dk.compressedKey = pair.key
                  /\ coded.dk.keylen = Len(pair.key)
           /\ (Shared > maxPrefixLen \/ Len(pair.key) - Shared > maxCompressedLen) =>
                  ~IsCompressed(coded.dk.keylen)
    /\ coded.stage = "decoded" =>
           /\ coded.k.err = NoErr
           /\ coded.k.prefixLen = PrefixOf(coded.dk.keylen)
           /\ coded.k.compressedLen = Len(coded.dk.compressedKey)
           /\ coded.key = pair.key
           /\ pair.prevKey # Nil => less(pair.prevKey, coded.key)

\* a key at both limits, 127 bytes of prefix and 255 bytes of tail, was
\* compressed and decoded
C17_Witness ==
    /\ coded.stage = "decoded"
    /\ coded.dk.keylen = 65535
    /\ Len(pair.prevKey) = maxPrefixLen + 1
    /\ coded.key = pair.key

\* ------------------------------------------------------------------------
\* Reads that fail under an open disk segment

\* the files of the segment are cut short or overwritten on the disk: the
\* last key block loses all its bytes but one, or all its bytes, the first
\* keylen of the last key block becomes a length above maxKeySize, the data
\* file loses its last byte
Faults == {"shortBlock", "noBlock", "keylen", "data"}
damaged(seg, f) ==
    LET last == (seg.keyBlocks - 1) * keyBlockSize
    IN  CASE f = "shortBlock" ->
                 [seg EXCEPT !.keyFile = SubSeq(seg.keyFile, 1, last + 1)]
          [] f = "noBlock" ->
                 [seg EXCEPT !.keyFile = SubSeq(seg.keyFile, 1, last)]
          [] f = "keylen" ->
                 [seg EXCEPT !.keyFile = SubSeq(seg.keyFile, 1, last)
                                         \o PutUint(maxKeySize + 1, 2)
                                         \o SubSeq(seg.keyFile, last + 3, Len(seg.keyFile))]
          [] OTHER ->
                 [seg EXCEPT !.dataFile = SubSeq(seg.dataFile, 1, Len(seg.dataFile) - 1)]

\* the damage happens once, before or after Lookup and between any two calls
Damage(f) ==
    /\ ds # NoSegment
    /\ broken = Intact
    /\ IndexIdle
    /\ LockIdle
    /\ f = "data" => Len(ds.dataFile) > 0
    /\ broken' = f
    /\ ds' = damaged(ds, f)
    /\ UNCHANGED <<stream, got, itr, asked, out, peeks, checked, plain, tableVars, dbVars, flushVars, codecVars, indexVars, lockVars>>

\* Next calls made on an iterator of a damaged segment
MaxCalls == NumKeys + MaxEnd

InitFault == InitWith(ScanStreams)
NextFault ==
    \/ Flush
    \/ \E f \in Faults : Damage(f)
    \/ OpenDisk(Nil, Nil)
    \/ (Len(out) < MaxCalls /\ CallNext)
SpecFault == InitFault /\ [][NextFault]_vars

\* the error nextKeyValue returns to Next in this state ("nil" when Next holds
\* an entry and does not call it)
Returned ==
    IF itr.kind # "disk" \/ itr.isValid THEN NoErr
    ELSE IF itr.finished THEN EndOfIterator
    ELSE nextLoop(ds, itr, itr.key).ret

\* C18: read-path errors surface from the iterator. Whenever during Next on
\* a disk-segment iterator the read of the next key block fails or is short,
\* a keylen fails to decode, or the read of the value from the data file
\* fails, that Next returns a non-nil error other than EndOfIterator (and so
\* no earlier key and value with a nil error).
C18_ReadErrorsSurface ==
    [][(/\ Len(out') = Len(out) + 1
        /\ Returned \in {errEOF, errInvalidKeyLen})
       => out'[Len(out')].err \notin {NoErr, EndOfIterator}]_vars

\* the same for the short or failed read of a key block alone
C18_BlockReadSurfaces ==
    [][(/\ Len(out') = Len(out) + 1
        /\ broken \in {"shortBlock", "noBlock"}
        /\ Returned = errEOF)
       => out'[Len(out')].err \notin {NoErr, EndOfIterator}]_vars

\* the same for the failed read of a value alone
C18_DataReadSurfaces ==
    [][(/\ Len(out') = Len(out) + 1
        /\ broken = "data"
        /\ Returned = errEOF)
       => out'[Len(out')].err \notin {NoErr, EndOfIterator}]_vars

\* Next does not run into an index out of range on the damaged files
C18_NoPanic == Returned # errPanic

\* ------------------------------------------------------------------------
\* A written segment loaded again from its files

\* newDiskSegment(keyFilename, dataFilename, nil) on the files of the
\* written segment, as loadDiskSegments calls it
Reopen ==
    /\ ds # NoSegment
    /\ reopened = NoSegment
    /\ reopened' = newDiskSegment(ds.keyFile, ds.dataFile, NilIndex, ds.id)
    /\ UNCHANGED <<gets, segmentVars, tableVars, dbVars, flushVars, codecVars, faultVars, lockVars>>

\* the written segment with ds.keyIndex == nil
withoutIndex(seg) == [seg EXCEPT !.keyIndex = NilIndex]

\* diskSegment.Get(key) on the written segment, on the reopened segment and
\* on the segment without an index
GetEach(key) ==
    /\ reopened # NoSegment
    /\ gets = NoCall
    /\ gets' = [key |-> key, handed |-> Get(ds, key), rebuilt |-> Get(reopened, key),
                bare |-> Get(withoutIndex(ds), key)]
    /\ UNCHANGED <<reopened, segmentVars, tableVars, dbVars, flushVars, codecVars, faultVars, lockVars>>

InitIndex == InitWith(Streams)
NextIndex == Flush \/ Reopen \/ \E key \in Probes : GetEach(key)
SpecIndex == InitIndex /\ [][NextIndex]_vars

lockFree_always == TRUE

\* db.tables[table].Lock() returns when no one holds the lock
lockFree == mu = 0

\* a commit appends its memory segment under the table's lock
CommitLocked ==
    /\ lockFree
    /\ Commit

\* writeSegmentToDisk: db.tables[table].Lock()
TaskLock(n) ==
    /\ tasks[n].pc = "swap"
    /\ lockFree
    /\ mu' = n
    /\ tasks' = [tasks EXCEPT ![n].pc = "loop"]
    /\ UNCHANGED <<list, sess, swap, mrg, local, dbVars, segmentVars, tableVars, codecVars, faultVars, indexVars>>

\* writeSegmentToDisk: the loop over db.tables[table].segments that fills the
\* slice segments
TaskLoop(n) ==
    /\ tasks[n].pc = "loop"
    /\ local' = (n :> swapSegment(list, memorySegment(n), tasks[n].ds)) @@ local
    /\ tasks' = [tasks EXCEPT ![n].pc = "store"]
    /\ UNCHANGED <<list, sess, swap, mu, mrg, dbVars, segmentVars, tableVars, codecVars, faultVars, indexVars>>

\* writeSegmentToDisk: db.tables[table].segments = segments
TaskStore(n) ==
    /\ tasks[n].pc = "store"
    /\ list' = local[n]
    /\ swap' = [n |-> n, ds |-> tasks[n].ds, before |-> list, after |-> local[n]]
    /\ tasks' = [tasks EXCEPT ![n].pc = "unlock"]
    /\ UNCHANGED <<sess, mu, mrg, local, dbVars, segmentVars, tableVars, codecVars, faultVars, indexVars>>

\* writeSegmentToDisk returns: the deferred Unlock() and db.wg.Done()
TaskUnlock(n) ==
    /\ tasks[n].pc = "unlock"
    /\ mu' = IF mu = n THEN 0 ELSE mu
    /\ tasks' = [tasks EXCEPT ![n].pc = "done"]
    /\ sess' = [sess EXCEPT !.wg = sess.wg - 1]
    /\ UNCHANGED <<list, swap, mrg, local, dbVars, segmentVars, tableVars, codecVars, faultVars, indexVars>>

\* the segment a compaction writes for two adjacent disk segments: it holds
\* what both held
mergedSegment(id, older, newer) ==
    [kind |-> "disk", id |-> id, n |-> newer.n, of |-> {older.n, newer.n}]

\* the compaction worker: with more than MaxSegments segments in the list it
\* takes the two oldest, both on disk, and writes their merge
MergePick ==
    /\ sess.open
    /\ sess.merger
    /\ mrg = MergerIdle
    /\ lockFree
    /\ Len(list) > MaxSegments
    /\ list[1].kind = "disk"
    /\ list[2].kind = "disk"
    /\ mrg' = [pc |-> "merged", pair |-> <<list[1], list[2]>>,
               d |-> mergedSegment(sess.nextSegID + 1, list[1], list[2])]
    /\ sess' = [sess EXCEPT !.nextSegID = sess.nextSegID + 1]
    /\ UNCHANGED <<list, tasks, swap, mu, local, dbVars, segmentVars, tableVars, codecVars, faultVars, indexVars>>

\* the compaction worker takes the table's lock
MergeLock ==
    /\ sess.open
    /\ mrg.pc = "merged"
    /\ lockFree
    /\ mu' = Merger
    /\ mrg' = [mrg EXCEPT !.pc = "swap"]
    /\ UNCHANGED <<list, tasks, sess, swap, local, dbVars, segmentVars, tableVars, codecVars, faultVars, indexVars>>

\* the list with the pair replaced by the merged segment where the pair stands
RECURSIVE replacePair(_, _, _)
replacePair(tableSegments, olds, d) ==
    IF Len(tableSegments) < 2 THEN tableSegments
    ELSE IF tableSegments[1] = olds[1] /\ tableSegments[2] = olds[2]
    THEN <<d>> \o SubSeq(tableSegments, 3, Len(tableSegments))
    ELSE <<tableSegments[1]>> \o replacePair(Tail(tableSegments), olds, d)

\* the compaction worker replaces the pair under the lock and releases it
MergeSwap ==
    /\ sess.open
    /\ mrg.pc = "swap"
    /\ list' = replacePair(list, mrg.pair, mrg.d)
    /\ mu' = IF mu = Merger THEN 0 ELSE mu
    /\ mrg' = MergerIdle
    /\ UNCHANGED <<tasks, sess, swap, local, dbVars, segmentVars, tableVars, codecVars, faultVars, indexVars>>

InitSwap == InitFlush
NextSwap ==
    \/ CommitLocked
    \/ \E n \in 1..Len(tasks) :
          \/ TaskLookup(n) \/ TaskWrite(n) \/ TaskRemove(n) \/ TaskRename(n)
          \/ TaskLock(n) \/ TaskLoop(n) \/ TaskStore(n) \/ TaskUnlock(n)
    \/ MergePick \/ MergeLock \/ MergeSwap
SpecSwap == InitSwap /\ [][NextSwap]_vars

\* the commits whose entries a segment of the list holds
Holds(seg) == IF "of" \in DOMAIN seg THEN seg.of ELSE {seg.n}

\* the segments of the list that hold commit n
Holders(n) == {i \in 1..Len(list) : n \in Holds(list[i])}

\* the goroutine of commit n has gone through its swap
Swapped(n) == tasks[n].pc \in {"unlock", "done"} /\ ~aborts(tasks[n].err)

\* C22: concurrent list mutations are not lost. With several
\* writeSegmentToDisk goroutines for the memory segments of one table, the
\* commits and the compaction worker running in any interleaving, every swap
\* is made on the list as it is while the table's lock is held; once a flush
\* has made its swap its memory segment is gone from the list, its disk
\* segment (or the merge that holds it) is in the list once, or nothing when
\* the segment was empty, and stays so whatever the other flushes do; no
\* segment is in the list twice, none is dropped, and the list keeps the
\* order of the commits.
C22_NoLostSwap ==
    /\ \A n \in 1..Len(tasks) :
           /\ tasks[n].pc = "store" =>
                  local[n] = swapSegment(list, memorySegment(n), tasks[n].ds)
           /\ Swapped(n) =>
                  /\ Places(list, memorySegment(n)) = {}
                  /\ tasks[n].ds # NilSegment =>
                         /\ Cardinality(Holders(n)) = 1
                         /\ \A i \in Holders(n) : list[i].kind = "disk"
                  /\ tasks[n].ds = NilSegment => Holders(n) = {}
           /\ ~Swapped(n) => Places(list, memorySegment(n)) = Holders(n)
           /\ ~Swapped(n) => Cardinality(Holders(n)) = 1
    /\ InCommitOrder(list)

\* three flushes have made their swaps: the compaction worker replaced the
\* disk segments of the first two by their merge while the third memory
\* segment was in the list, and the third flush then made its swap on the
\* list with the merged segment
C22_Witness ==
    /\ Len(tasks) = MaxCommits
    /\ \A n \in 1..Len(tasks) : tasks[n].pc = "done" /\ tasks[n].ds # NilSegment
    /\ Len(list) = 2
    /\ Holds(list[1]) = {1, 2}
    /\ list[2] = tasks[3].ds
    /\ swap.n = 3
    /\ swap.before = <<list[1], memorySegment(3)>>

=============================================================================
